---- MODULE Spec2Model ----
(***************************************************************************)
(* Waitlist admission store (Redis Lua scripts), the insertUser wrapper    *)
(* and the add-to-waitlist / register-user controllers of the main API.    *)
(*                                                                         *)
(* Redis runs every EVAL script to completion before it serves another     *)
(* command, so each script is one atomic action.  Every await of a         *)
(* controller is a point where other requests may run.                     *)
(***************************************************************************)
EXTENDS Integers, Sequences, FiniteSets, TLC

(***************************************************************************)
(* Bounds of the model.                                                    *)
(***************************************************************************)
NumRequests == 2        \* requests handled, each by its own task
MaxWaitlistLimit == 2   \* waitlist_limit ranges over 0..MaxWaitlistLimit
MaxPolicyChanges == 1   \* settings updates made by the registry's owner
MaxSignedUp == 2        \* signed_up_users, signed_up_user_limit of the decision inputs
MaxCutoff == 2          \* signup_cutoff of the decision inputs ranges over -1..MaxCutoff

Nil == <<"nil">>        \* Lua nil (false from HGET) / JS null / undefined
EmptyString == <<>>     \* the string ''

Requests == 1..NumRequests

(***************************************************************************)
(* Strings are sequences of characters, so that trimming, lower-casing and *)
(* phone parsing are computed and not assumed.                             *)
(***************************************************************************)
Letters == {"a", "b", "q", "x", "A"}
Digits == {"1", "2"}

\* The usernames that arrive in request bodies.
RawUsernames ==
    { <<"A", "@", "x">>,          \* an email written with a capital
      <<"+", "1", " ", "2">>,     \* a phone number written with a space
      <<"q">> }                   \* neither an email nor a phone number

\* String.prototype.toLowerCase
LowerChar(c) == IF c = "A" THEN "a" ELSE c
toLowerCase(s) == [i \in 1..Len(s) |-> LowerChar(s[i])]

\* String.prototype.trim
RECURSIVE TrimLeft(_)
TrimLeft(s) == IF s # <<>> /\ Head(s) = " " THEN TrimLeft(Tail(s)) ELSE s
RECURSIVE TrimRight(_)
TrimRight(s) ==
    IF s # <<>> /\ s[Len(s)] = " " THEN TrimRight(SubSeq(s, 1, Len(s) - 1)) ELSE s
trim(s) == TrimRight(TrimLeft(s))

\* validator.isEmail: local@domain, letters only here, no white space.
isEmail(s) ==
    /\ Len(s) >= 3
    /\ Cardinality({i \in 1..Len(s) : s[i] = "@"}) = 1
    /\ s[1] # "@" /\ s[Len(s)] # "@"
    /\ \A i \in 1..Len(s) : s[i] \in Letters \cup {"@"}

\* libphonenumber-js: the numbers of the numbering plan.
ValidNationalNumbers == { <<"1", "2">> }

RECURSIVE DigitsOf(_)
DigitsOf(s) ==
    IF s = <<>> THEN <<>>
    ELSE IF Head(s) \in Digits THEN <<Head(s)>> \o DigitsOf(Tail(s))
    ELSE DigitsOf(Tail(s))

\* parsePhoneNumberFromString without a default country: an international
\* number, "+" then digits, formatting spaces ignored.  defined is FALSE when
\* the text is no phone number (undefined); otherwise .number is the E.164
\* form.
parsePhoneNumberFromString(s) ==
    LET t == trim(s) IN
    IF /\ t # <<>>
       /\ Head(t) = "+"
       /\ \A i \in 2..Len(t) : t[i] \in Digits \cup {" "}
       /\ DigitsOf(t) # <<>>
    THEN [defined |-> TRUE,
          number |-> <<"+">> \o DigitsOf(t),
          isValid |-> DigitsOf(t) \in ValidNationalNumbers]
    ELSE [defined |-> FALSE, number |-> EmptyString, isValid |-> FALSE]

(***************************************************************************)
(* Redis.  A hash is a function from its fields to their values; the list  *)
(* waitlist:list is a sequence.                                            *)
(***************************************************************************)
HGET(h, f) == IF f \in DOMAIN h THEN h[f] ELSE Nil
HSET(h, f, v) == [x \in (DOMAIN h) \cup {f} |-> IF x = f THEN v ELSE h[x]]
EmptyHash == [x \in {} |-> Nil]

\* The first index of item in the list, 0 when absent (the ipairs loops).
IndexOf(items, item) ==
    IF \E i \in 1..Len(items) : items[i] = item
    THEN CHOOSE i \in 1..Len(items) :
            /\ items[i] = item
            /\ \A j \in 1..(i - 1) : items[j] # item
    ELSE 0

\* Faulty variant: the phone index is not consulted for the position.
GetPositionByIdentifierScript_EmailOnly(db, identifier) ==
    LET userId == HGET(db.emails, identifier)
    IN IF userId = Nil THEN 0 ELSE IndexOf(db.waitlist, userId)

\* REDIS_SCRIPTS.getPositionByIdentifier
GetPositionByIdentifierScript(db, identifier) ==
    LET byEmail == HGET(db.emails, identifier)
        userId == IF byEmail = Nil THEN HGET(db.phones, identifier) ELSE byEmail
    IN IF userId = Nil THEN 0 ELSE IndexOf(db.waitlist, userId)

\* REDIS_SCRIPTS.isOnWaitlist
IsOnWaitlistScript(db, identifier) ==
    IF HGET(db.emails, identifier) # Nil THEN 1
    ELSE IF HGET(db.phones, identifier) # Nil THEN 1
    ELSE 0

\* REDIS_SCRIPTS.getPosition
GetPositionScript(db, id) == IndexOf(db.waitlist, id)

\* Faulty variant: the phone index is not consulted.
FindExistingUserId_EmailOnly(db, email, phone) ==
    IF email # EmptyString THEN HGET(db.emails, email) ELSE Nil

\* REDIS_SCRIPTS.insertUser, "Check if user exists by email" and "by phone
\* (only if not found by email)": the existing user's id, Nil when new.
FindExistingUserId(db, email, phone) ==
    LET existingIdByEmail == IF email # EmptyString THEN HGET(db.emails, email) ELSE Nil
    IN IF existingIdByEmail # Nil THEN existingIdByEmail
       ELSE IF phone # EmptyString THEN HGET(db.phones, phone)
       ELSE Nil

\* Faulty variant: the user found is appended to the list again.
ReturnExistingUser_Requeues(db, userIdToUse, userDataJson) ==
    [db |-> [db EXCEPT !.waitlist = Append(@, userIdToUse),
                       !.users = HSET(@, userIdToUse, userDataJson)],
     ret |-> <<IndexOf(db.waitlist, userIdToUse), 1, userIdToUse>>]

\* REDIS_SCRIPTS.insertUser, "If user existed, find their position": the
\* stored data is overwritten, nothing else is written.
ReturnExistingUser(db, userIdToUse, userDataJson) ==
    [db |-> [db EXCEPT !.users = HSET(@, userIdToUse, userDataJson)],
     ret |-> <<IndexOf(db.waitlist, userIdToUse), 1, userIdToUse>>]

\* Faulty variant: the limit is not checked.
AddNewUser_NoLimit(db, userIdToUse, email, phone, limit, userDataJson) ==
    LET currentLength == Len(db.waitlist) IN
    [db |-> [waitlist |-> Append(db.waitlist, userIdToUse),
             emails |-> IF email # EmptyString
                        THEN HSET(db.emails, email, userIdToUse) ELSE db.emails,
             phones |-> IF phone # EmptyString
                        THEN HSET(db.phones, phone, userIdToUse) ELSE db.phones,
             users |-> HSET(db.users, userIdToUse, userDataJson)],
     ret |-> <<currentLength + 1, 0, userIdToUse>>]

\* Faulty variant: currentLength > limit where the script has >=.
AddNewUser_OffByOne(db, userIdToUse, email, phone, limit, userDataJson) ==
    LET currentLength == Len(db.waitlist) IN
    IF currentLength > limit
    THEN [db |-> db, ret |-> <<-1, -1, EmptyString>>]
    ELSE [db |-> [waitlist |-> Append(db.waitlist, userIdToUse),
                  emails |-> IF email # EmptyString
                             THEN HSET(db.emails, email, userIdToUse) ELSE db.emails,
                  phones |-> IF phone # EmptyString
                             THEN HSET(db.phones, phone, userIdToUse) ELSE db.phones,
                  users |-> HSET(db.users, userIdToUse, userDataJson)],
          ret |-> <<currentLength + 1, 0, userIdToUse>>]

\* Faulty variant: position = currentLength, the + 1 forgotten.
AddNewUser_PositionIsLength(db, userIdToUse, email, phone, limit, userDataJson) ==
    LET currentLength == Len(db.waitlist) IN
    IF currentLength >= limit
    THEN [db |-> db, ret |-> <<-1, -1, EmptyString>>]
    ELSE [db |-> [waitlist |-> Append(db.waitlist, userIdToUse),
                  emails |-> IF email # EmptyString
                             THEN HSET(db.emails, email, userIdToUse) ELSE db.emails,
                  phones |-> IF phone # EmptyString
                             THEN HSET(db.phones, phone, userIdToUse) ELSE db.phones,
                  users |-> HSET(db.users, userIdToUse, userDataJson)],
          ret |-> <<currentLength, 0, userIdToUse>>]

\* Faulty variant: the phone mapping is not set.
AddNewUser_NoPhoneIndex(db, userIdToUse, email, phone, limit, userDataJson) ==
    LET currentLength == Len(db.waitlist) IN
    IF currentLength >= limit
    THEN [db |-> db, ret |-> <<-1, -1, EmptyString>>]
    ELSE [db |-> [waitlist |-> Append(db.waitlist, userIdToUse),
                  emails |-> IF email # EmptyString
                             THEN HSET(db.emails, email, userIdToUse) ELSE db.emails,
                  phones |-> db.phones,
                  users |-> HSET(db.users, userIdToUse, userDataJson)],
          ret |-> <<currentLength + 1, 0, userIdToUse>>]

\* Faulty variant: the identifier is indexed but the id is not pushed.
AddNewUser_IndexWithoutPush(db, userIdToUse, email, phone, limit, userDataJson) ==
    LET currentLength == Len(db.waitlist) IN
    IF currentLength >= limit
    THEN [db |-> db, ret |-> <<-1, -1, EmptyString>>]
    ELSE [db |-> [waitlist |-> db.waitlist,
                  emails |-> IF email # EmptyString
                             THEN HSET(db.emails, email, userIdToUse) ELSE db.emails,
                  phones |-> IF phone # EmptyString
                             THEN HSET(db.phones, phone, userIdToUse) ELSE db.phones,
                  users |-> HSET(db.users, userIdToUse, userDataJson)],
          ret |-> <<currentLength + 1, 0, userIdToUse>>]

\* Faulty variant: LPUSH, the new entry takes the head of the list.
AddNewUser_PushFront(db, userIdToUse, email, phone, limit, userDataJson) ==
    LET currentLength == Len(db.waitlist) IN
    IF currentLength >= limit
    THEN [db |-> db, ret |-> <<-1, -1, EmptyString>>]
    ELSE [db |-> [waitlist |-> <<userIdToUse>> \o db.waitlist,
                  emails |-> IF email # EmptyString
                             THEN HSET(db.emails, email, userIdToUse) ELSE db.emails,
                  phones |-> IF phone # EmptyString
                             THEN HSET(db.phones, phone, userIdToUse) ELSE db.phones,
                  users |-> HSET(db.users, userIdToUse, userDataJson)],
          ret |-> <<1, 0, userIdToUse>>]

\* Faulty variant: RPUSH before the limit check.
AddNewUser_PushBeforeCheck(db, userIdToUse, email, phone, limit, userDataJson) ==
    LET currentLength == Len(db.waitlist) + 1 IN
    IF currentLength > limit
    THEN [db |-> [db EXCEPT !.waitlist = Append(@, userIdToUse)],
          ret |-> <<-1, -1, EmptyString>>]
    ELSE [db |-> [waitlist |-> Append(db.waitlist, userIdToUse),
                  emails |-> IF email # EmptyString
                             THEN HSET(db.emails, email, userIdToUse) ELSE db.emails,
                  phones |-> IF phone # EmptyString
                             THEN HSET(db.phones, phone, userIdToUse) ELSE db.phones,
                  users |-> HSET(db.users, userIdToUse, userDataJson)],
          ret |-> <<currentLength, 0, userIdToUse>>]

\* Faulty variant: a phone number is entered in the email index as well.
AddNewUser_IndexesBothKinds(db, userIdToUse, email, phone, limit, userDataJson) ==
    LET currentLength == Len(db.waitlist) IN
    IF currentLength >= limit
    THEN [db |-> db, ret |-> <<-1, -1, EmptyString>>]
    ELSE [db |-> [waitlist |-> Append(db.waitlist, userIdToUse),
                  emails |-> IF email # EmptyString
                             THEN HSET(db.emails, email, userIdToUse)
                             ELSE IF phone # EmptyString
                             THEN HSET(db.emails, phone, userIdToUse) ELSE db.emails,
                  phones |-> IF phone # EmptyString
                             THEN HSET(db.phones, phone, userIdToUse) ELSE db.phones,
                  users |-> HSET(db.users, userIdToUse, userDataJson)],
          ret |-> <<currentLength + 1, 0, userIdToUse>>]

\* REDIS_SCRIPTS.insertUser, "If new user, check limit and add".
AddNewUser(db, userIdToUse, email, phone, limit, userDataJson) ==
    LET currentLength == Len(db.waitlist) IN
    IF currentLength >= limit
    THEN [db |-> db, ret |-> <<-1, -1, EmptyString>>]
    ELSE [db |-> [waitlist |-> Append(db.waitlist, userIdToUse),
                  emails |-> IF email # EmptyString
                             THEN HSET(db.emails, email, userIdToUse) ELSE db.emails,
                  phones |-> IF phone # EmptyString
                             THEN HSET(db.phones, phone, userIdToUse) ELSE db.phones,
                  users |-> HSET(db.users, userIdToUse, userDataJson)],
          ret |-> <<currentLength + 1, 0, userIdToUse>>]

\* Faulty variant: the identifier mappings are set to the new id before the
\* existing user is returned.
InsertUserScript_ReindexesExisting(db, id, email, phone, limit, userDataJson) ==
    LET existingId == FindExistingUserId(db, email, phone)
        remapped == [db EXCEPT
                       !.emails = IF email # EmptyString THEN HSET(@, email, id) ELSE @,
                       !.phones = IF phone # EmptyString THEN HSET(@, phone, id) ELSE @]
    IN
    IF existingId # Nil
    THEN ReturnExistingUser(remapped, existingId, userDataJson)
    ELSE AddNewUser(db, id, email, phone, limit, userDataJson)

\* Faulty variant: the limit is checked before the user is looked up.
InsertUserScript_LimitFirst(db, id, email, phone, limit, userDataJson) ==
    LET existingId == FindExistingUserId(db, email, phone) IN
    IF Len(db.waitlist) >= limit
    THEN [db |-> db, ret |-> <<-1, -1, EmptyString>>]
    ELSE IF existingId # Nil
    THEN ReturnExistingUser(db, existingId, userDataJson)
    ELSE AddNewUser(db, id, email, phone, limit, userDataJson)

\* REDIS_SCRIPTS.insertUser.  ret is the Lua table {position, existed, id}.
InsertUserScript(db, id, email, phone, limit, userDataJson) ==
    LET existingId == FindExistingUserId(db, email, phone) IN
    IF existingId # Nil
    THEN ReturnExistingUser(db, existingId, userDataJson)
    ELSE AddNewUser(db, id, email, phone, limit, userDataJson)

(***************************************************************************)
(* waitlistUtils.ts: the wrappers around the scripts.                      *)
(***************************************************************************)
getPositionByIdentifier(db, identifier) == GetPositionByIdentifierScript(db, identifier)
isOnWaitlist(db, identifier) == IsOnWaitlistScript(db, identifier) = 1
getPosition(db, id) == GetPositionScript(db, id)

\* The identifier insertUser derives from data.username: [email, phone], each
\* Nil when absent.
SanitizeForInsert(rawUsername) ==
    LET username == trim(rawUsername)
        phoneNumber == parsePhoneNumberFromString(username)
    IN IF isEmail(username)
       THEN [email |-> toLowerCase(username), phone |-> Nil]
       ELSE IF phoneNumber.defined /\ phoneNumber.isValid
       THEN [email |-> Nil, phone |-> phoneNumber.number]
       ELSE [email |-> Nil, phone |-> Nil]

OrEmpty(v) == IF v = Nil THEN EmptyString ELSE v

\* insertUser(redis, data, waitlistLimit) with finalUserId = uuidv4().
\* outcome is "returned" (result is the InsertResult) or "threw" (the
\* 'Waitlist is full' error).
insertUser(db, finalUserId, data, waitlistLimit) ==
    LET san == SanitizeForInsert(data.username)
        userDataToStore == [id |-> EmptyString, email |-> san.email,
                            phone |-> san.phone, metadata |-> data.metadata]
        out == InsertUserScript(db, finalUserId, OrEmpty(san.email),
                                OrEmpty(san.phone), waitlistLimit, userDataToStore)
        pos == out.ret[1]
        existsNum == out.ret[2]
        returnedUserId == out.ret[3]
    IN IF san.email = Nil /\ san.phone = Nil
       THEN [db |-> db, outcome |-> "returned",
             result |-> [id |-> EmptyString, position |-> 0, already_existed |-> FALSE]]
       ELSE IF pos = -1
       THEN [db |-> out.db, outcome |-> "threw",
             result |-> [id |-> EmptyString, position |-> 0, already_existed |-> FALSE]]
       ELSE [db |-> out.db, outcome |-> "returned",
             result |-> [id |-> IF existsNum = 1 THEN returnedUserId ELSE finalUserId,
                         position |-> pos,
                         already_existed |-> existsNum = 1]]

(***************************************************************************)
(* userManagementUtils.ts                                                  *)
(***************************************************************************)
validateAndSanitizeUsername(username) ==
    LET phoneNumber == parsePhoneNumberFromString(username) IN
    IF username = EmptyString
    THEN [isValid |-> FALSE, sanitizedIdentifier |-> Nil]
    ELSE IF isEmail(username)
    THEN [isValid |-> TRUE, sanitizedIdentifier |-> trim(toLowerCase(username))]
    ELSE IF phoneNumber.defined /\ ~phoneNumber.isValid
    THEN [isValid |-> FALSE, sanitizedIdentifier |-> Nil]
    ELSE IF phoneNumber.defined /\ phoneNumber.isValid
    THEN [isValid |-> TRUE, sanitizedIdentifier |-> phoneNumber.number]
    ELSE [isValid |-> FALSE, sanitizedIdentifier |-> Nil]

(***************************************************************************)
(* The registry (Supabase, schema user_onboarding).                        *)
(***************************************************************************)
AllowedRegistrations == {"all", "waitlist"}

\* signed_up_user_limit: 0 is "no limit".
UserLimits == {0, 1}
\* signup_cutoff: negative is "closed for waitlist users".
SignupCutoffs == {-1, 1}

\* The values get_current_settings can return.
PolicyValues ==
    [signed_up_users : {0},
     signed_up_user_limit : UserLimits,
     waitlist_limit : 0..MaxWaitlistLimit,
     signup_cutoff : SignupCutoffs,
     allowed_registrations : AllowedRegistrations]

NoSettings ==
    [signed_up_users |-> 0, signed_up_user_limit |-> 0, waitlist_limit |-> 0,
     signup_cutoff |-> 0, allowed_registrations |-> "unset"]

\* rpc('check_user_exists', {username})
check_user_exists(users, username) == username \in users

\* rpc('increment_user_count', {username}): records the sign-up and counts it;
\* a username already recorded is counted once.
increment_user_count(policy, users, username) ==
    [registered |-> users \cup {username},
     settings |-> IF username \in users THEN policy
                  ELSE [policy EXCEPT !.signed_up_users = @ + 1]]

(***************************************************************************)
(* State.                                                                  *)
(***************************************************************************)
VARIABLES
    redis,          \* the four waitlist keys: waitlist, emails, phones, users
    settings,       \* the registry's current onboarding settings
    registered,     \* the usernames the registry has recorded as signed up
    policyChanges,  \* settings updates made so far
    pc,             \* per request: where its controller is
    req,            \* per request: endpoint and body username
    loc,            \* per request: the controller's local variables
    ins,            \* per request: what its insertUser call did
    resp            \* per request: the response sent

vars == <<redis, settings, registered, policyChanges, pc, req, loc, ins, resp>>

uuidv4(r) == <<"uuid", r>>

NoReq == [endpoint |-> "none", username |-> EmptyString]

NoLoc ==
    [identifier |-> Nil, pending |-> {}, userExists |-> FALSE, existsError |-> FALSE,
     userIsOnWaitlist |-> FALSE, settings |-> NoSettings, waitlistPosition |-> 0]

EmptyStore ==
    [waitlist |-> <<>>, emails |-> EmptyHash, phones |-> EmptyHash, users |-> EmptyHash]

\* outcome "none": insertUser was not called.  before and after are the
\* waitlist keys as the call's script found and left them.
NoIns ==
    [outcome |-> "none", username |-> EmptyString, limit |-> 0,
     id |-> EmptyString, position |-> 0, already_existed |-> FALSE,
     before |-> EmptyStore, after |-> EmptyStore]

NoResp ==
    [status |-> 0, success |-> FALSE, registered_signup |-> FALSE,
     already_registered |-> FALSE, can_sign_up |-> FALSE,
     on_waitlist |-> FALSE, position |-> 0, already_existed |-> FALSE,
     message |-> "none"]

Init ==
    /\ redis = EmptyStore
    /\ settings \in PolicyValues
    /\ registered = {}
    /\ policyChanges = 0
    /\ pc = [r \in Requests |-> "idle"]
    /\ req = [r \in Requests |-> NoReq]
    /\ loc = [r \in Requests |-> NoLoc]
    /\ ins = [r \in Requests |-> NoIns]
    /\ resp = [r \in Requests |-> NoResp]

\* res.status(code).json(body); the handler returns and its locals are gone.
Respond(r, body) ==
    /\ resp' = [resp EXCEPT ![r] = body]
    /\ pc' = [pc EXCEPT ![r] = "done"]
    /\ loc' = [loc EXCEPT ![r] = NoLoc]

\* What an insertUser call did, as the caller sees it.
InsRecord(out, username, limit) ==
    [outcome |-> out.outcome, username |-> username, limit |-> limit,
     id |-> out.result.id, position |-> out.result.position,
     already_existed |-> out.result.already_existed,
     before |-> redis, after |-> out.db]

(***************************************************************************)
(* The registry's owner changes the onboarding settings.                   *)
(***************************************************************************)
SetWaitlistLimit ==
    /\ policyChanges < MaxPolicyChanges
    /\ \E v \in (0..MaxWaitlistLimit) \ {settings.waitlist_limit} :
          settings' = [settings EXCEPT !.waitlist_limit = v]
    /\ policyChanges' = policyChanges + 1
    /\ UNCHANGED <<redis, registered, pc, req, loc, ins, resp>>

SetRegistrationPolicy ==
    /\ policyChanges < MaxPolicyChanges
    /\ \/ \E v \in UserLimits \ {settings.signed_up_user_limit} :
             settings' = [settings EXCEPT !.signed_up_user_limit = v]
       \/ \E v \in SignupCutoffs \ {settings.signup_cutoff} :
             settings' = [settings EXCEPT !.signup_cutoff = v]
       \/ \E v \in AllowedRegistrations \ {settings.allowed_registrations} :
             settings' = [settings EXCEPT !.allowed_registrations = v]
    /\ policyChanges' = policyChanges + 1
    /\ UNCHANGED <<redis, registered, pc, req, loc, ins, resp>>

(***************************************************************************)
(* A request arrives.  Both controllers validate the username first and    *)
(* answer 400 when it is neither an email nor a phone number.              *)
(***************************************************************************)
Arrives(r, endpoint, username) ==
    /\ pc[r] = "idle"
    /\ \A q \in Requests : q < r => pc[q] # "idle"
    /\ req' = [req EXCEPT ![r] = [endpoint |-> endpoint, username |-> username]]

BadRequest == [NoResp EXCEPT !.status = 400, !.message = "Invalid input"]

(***************************************************************************)
(* addToWaitlistController                                                 *)
(***************************************************************************)
\* Validation, then const settings = await getCurrentOnboardingSettings(..).
\* When that throws (RPC error or no data) the catch block answers 500.
AddToWaitlistStart(r, username) ==
    LET validation == validateAndSanitizeUsername(username) IN
    /\ Arrives(r, "add-to-waitlist", username)
    /\ IF ~validation.isValid \/ validation.sanitizedIdentifier = Nil
       THEN Respond(r, BadRequest)
       ELSE \E settingsError \in BOOLEAN :
               IF settingsError
               THEN Respond(r, [NoResp EXCEPT !.status = 500,
                                              !.message = "Internal server error"])
               ELSE /\ pc' = [pc EXCEPT ![r] = "add_insert"]
                    /\ loc' = [loc EXCEPT ![r] =
                                 [NoLoc EXCEPT !.identifier = validation.sanitizedIdentifier,
                                               !.settings = settings]]
                    /\ resp' = resp
    /\ UNCHANGED <<redis, settings, registered, policyChanges, ins>>

\* Faulty variant: an identifier the registry has recorded as signed up is
\* not put on the waitlist.
AddInsert_SkipsRegistered(r) ==
    LET limit == loc[r].settings.waitlist_limit
        data == [username |-> loc[r].identifier, metadata |-> Nil]
        out == insertUser(redis, uuidv4(r), data, limit)
    IN
    /\ pc[r] = "add_insert"
    /\ IF check_user_exists(registered, loc[r].identifier)
       THEN /\ UNCHANGED <<redis, ins>>
            /\ Respond(r, [NoResp EXCEPT !.status = 200])
       ELSE /\ redis' = out.db
            /\ ins' = [ins EXCEPT ![r] = InsRecord(out, data.username, limit)]
            /\ IF out.outcome = "threw"
               THEN Respond(r, [NoResp EXCEPT !.status = 500,
                                              !.message = "Internal server error"])
               ELSE IF out.result.id = EmptyString
               THEN Respond(r, [NoResp EXCEPT !.status = 200])
               ELSE Respond(r, [NoResp EXCEPT !.status = 200, !.success = TRUE,
                                              !.position = out.result.position,
                                              !.already_existed = out.result.already_existed])
    /\ UNCHANGED <<settings, registered, policyChanges, req>>

\* const result = await insertUser(redis, {username: identifier},
\* settings.waitlist_limit), then the response.
AddInsert(r) ==
    LET limit == loc[r].settings.waitlist_limit
        data == [username |-> loc[r].identifier, metadata |-> Nil]
        out == insertUser(redis, uuidv4(r), data, limit)
    IN
    /\ pc[r] = "add_insert"
    /\ redis' = out.db
    /\ ins' = [ins EXCEPT ![r] = InsRecord(out, data.username, limit)]
    /\ IF out.outcome = "threw"
       THEN Respond(r, [NoResp EXCEPT !.status = 500,
                                      !.message = "Internal server error"])
       ELSE IF out.result.id = EmptyString
       THEN Respond(r, [NoResp EXCEPT !.status = 200])
       ELSE Respond(r, [NoResp EXCEPT !.status = 200, !.success = TRUE,
                                      !.position = out.result.position,
                                      !.already_existed = out.result.already_existed])
    /\ UNCHANGED <<settings, registered, policyChanges, req>>

(***************************************************************************)
(* registerUserController                                                  *)
(***************************************************************************)
\* Step 1: validation.
RegisterUserStart(r, username) ==
    LET validation == validateAndSanitizeUsername(username) IN
    /\ Arrives(r, "register-user", username)
    /\ IF ~validation.isValid \/ validation.sanitizedIdentifier = Nil
       THEN Respond(r, BadRequest)
       ELSE /\ pc' = [pc EXCEPT ![r] = "reg_fetch"]
            /\ loc' = [loc EXCEPT ![r] =
                         [NoLoc EXCEPT !.identifier = validation.sanitizedIdentifier,
                                       !.pending = {"exists", "settings", "position"}]]
            /\ resp' = resp
    /\ UNCHANGED <<redis, settings, registered, policyChanges, ins>>

\* Step 2: Promise.all([checkUserExists, getCurrentOnboardingSettings,
\* getPositionByIdentifier]): three reads, each at its own moment.

\* checkUserExists: an RPC error or exception is logged and answered false;
\* existsError keeps what the RPC returned as error.
RegCheckUserExists(r) ==
    /\ pc[r] = "reg_fetch"
    /\ "exists" \in loc[r].pending
    /\ \E rpcError \in BOOLEAN :
          loc' = [loc EXCEPT
                    ![r].userExists = IF rpcError THEN FALSE
                                      ELSE check_user_exists(registered, loc[r].identifier),
                    ![r].existsError = rpcError,
                    ![r].pending = @ \ {"exists"}]
    /\ UNCHANGED <<redis, settings, registered, policyChanges, pc, req, ins, resp>>

RegGetSettings(r) ==
    /\ pc[r] = "reg_fetch"
    /\ "settings" \in loc[r].pending
    /\ loc' = [loc EXCEPT ![r].settings = settings, ![r].pending = @ \ {"settings"}]
    /\ UNCHANGED <<redis, settings, registered, policyChanges, pc, req, ins, resp>>

\* getCurrentOnboardingSettings throws: Promise.all rejects and the top-level
\* catch answers 500.
RegGetSettingsFails(r) ==
    /\ pc[r] = "reg_fetch"
    /\ "settings" \in loc[r].pending
    /\ Respond(r, [NoResp EXCEPT !.status = 500, !.message = "Internal server error"])
    /\ UNCHANGED <<redis, settings, registered, policyChanges, req, ins>>

RegGetPosition(r) ==
    /\ pc[r] = "reg_fetch"
    /\ "position" \in loc[r].pending
    /\ loc' = [loc EXCEPT
                 ![r].waitlistPosition = getPositionByIdentifier(redis, loc[r].identifier),
                 ![r].pending = @ \ {"position"}]
    /\ UNCHANGED <<redis, settings, registered, policyChanges, pc, req, ins, resp>>

\* The flags computed from the fetched values.
isUserOnWaitlist(waitlistPosition) == waitlistPosition > 0

\* Faulty variant: the position is not tested for being on the waitlist.
isWaitlistEligible_IgnoresQueue(waitlistPosition, s) ==
    /\ s.signup_cutoff > 0
    /\ waitlistPosition <= s.signup_cutoff

isWaitlistEligible(waitlistPosition, s) ==
    /\ isUserOnWaitlist(waitlistPosition)
    /\ s.signup_cutoff > 0
    /\ waitlistPosition <= s.signup_cutoff

\* Faulty variant: signed_up_users > signed_up_user_limit where the code has >=.
userLimitReached_Strict(s) ==
    /\ s.signed_up_user_limit > 0
    /\ s.signed_up_users > s.signed_up_user_limit

\* Faulty variant: a limit of 0 is a limit.
userLimitReached_ZeroIsLimit(s) ==
    s.signed_up_users >= s.signed_up_user_limit

userLimitReached(s) ==
    /\ s.signed_up_user_limit > 0
    /\ s.signed_up_users >= s.signed_up_user_limit

\* Faulty variant: the position is compared before the sign of the cutoff.
checkWaitlistRegistrationBlocks_PositionFirst(waitlistPosition, s, onWaitlist) ==
    IF onWaitlist /\ waitlistPosition > s.signup_cutoff
    THEN [blocked |-> TRUE,
          message |-> "On waitlist, but not yet eligible for signup based on cutoff"]
    ELSE IF onWaitlist /\ s.signup_cutoff < 0
    THEN [blocked |-> TRUE,
          message |-> "Signup currently closed for waitlist users (negative cutoff)"]
    ELSE [blocked |-> FALSE, message |-> "none"]

\* Faulty variant: isUserOnWaitlist is not consulted.
checkWaitlistRegistrationBlocks_IgnoresFlag(waitlistPosition, s, onWaitlist) ==
    IF s.signup_cutoff < 0
    THEN [blocked |-> TRUE,
          message |-> "Signup currently closed for waitlist users (negative cutoff)"]
    ELSE IF waitlistPosition > s.signup_cutoff
    THEN [blocked |-> TRUE,
          message |-> "On waitlist, but not yet eligible for signup based on cutoff"]
    ELSE [blocked |-> FALSE, message |-> "none"]

\* checkWaitlistRegistrationBlocks: blocked, and the message of the response
\* it sends when it blocks.
checkWaitlistRegistrationBlocks(waitlistPosition, s, onWaitlist) ==
    IF onWaitlist /\ s.signup_cutoff < 0
    THEN [blocked |-> TRUE,
          message |-> "Signup currently closed for waitlist users (negative cutoff)"]
    ELSE IF onWaitlist /\ waitlistPosition > s.signup_cutoff
    THEN [blocked |-> TRUE,
          message |-> "On waitlist, but not yet eligible for signup based on cutoff"]
    ELSE [blocked |-> FALSE, message |-> "none"]

Fetched(r) == pc[r] = "reg_fetch" /\ loc[r].pending = {}

\* Faulty variant: the waitlist position is not passed on.
RegExisting_DropsPosition(r) ==
    /\ Fetched(r)
    /\ loc[r].userExists
    /\ Respond(r, [NoResp EXCEPT !.status = 200, !.registered_signup = TRUE,
                      !.message = "User is already registered"])
    /\ UNCHANGED <<redis, settings, registered, policyChanges, req, ins>>

\* Scenario: user already exists -> handleExistingUserRegistration
RegExisting(r) ==
    /\ Fetched(r)
    /\ loc[r].userExists
    /\ Respond(r, [NoResp EXCEPT !.status = 200, !.registered_signup = TRUE,
                      !.on_waitlist = loc[r].waitlistPosition > 0,
                      !.position = loc[r].waitlistPosition,
                      !.message = "User is already registered"])
    /\ UNCHANGED <<redis, settings, registered, policyChanges, req, ins>>

\* Faulty variant: the user is put on the waitlist and registered as well.
RegUserLimitReached_AlsoRegisters(r) ==
    LET limit == loc[r].settings.waitlist_limit
        data == [username |-> loc[r].identifier, metadata |-> Nil]
        out == insertUser(redis, uuidv4(r), data, limit)
        commit == increment_user_count(settings, registered, loc[r].identifier)
    IN
    /\ Fetched(r)
    /\ ~loc[r].userExists
    /\ userLimitReached(loc[r].settings)
    /\ redis' = out.db
    /\ ins' = [ins EXCEPT ![r] = InsRecord(out, data.username, limit)]
    /\ registered' = commit.registered
    /\ settings' = commit.settings
    /\ IF out.outcome = "threw"
       THEN Respond(r, [NoResp EXCEPT !.status = 500,
                          !.message = "Failed to add to waitlist during user limit check"])
       ELSE Respond(r, [NoResp EXCEPT !.status = 200,
                          !.on_waitlist = out.result.id # EmptyString,
                          !.position = out.result.position,
                          !.already_existed = out.result.already_existed,
                          !.message = IF out.result.id # EmptyString
                                      THEN "User limit reached, added/found on waitlist"
                                      ELSE "User limit reached, failed to add to waitlist"])
    /\ UNCHANGED <<policyChanges, req>>

\* Faulty variant: the settings are read again when the scenario is chosen.
RegUserLimitReached_RereadsSettings(r) ==
    LET limit == settings.waitlist_limit
        data == [username |-> loc[r].identifier, metadata |-> Nil]
        out == insertUser(redis, uuidv4(r), data, limit)
    IN
    /\ Fetched(r)
    /\ ~loc[r].userExists
    /\ userLimitReached(settings)
    /\ redis' = out.db
    /\ ins' = [ins EXCEPT ![r] = InsRecord(out, data.username, limit)]
    /\ IF out.outcome = "threw"
       THEN Respond(r, [NoResp EXCEPT !.status = 500,
                          !.message = "Failed to add to waitlist during user limit check"])
       ELSE Respond(r, [NoResp EXCEPT !.status = 200,
                          !.on_waitlist = out.result.id # EmptyString,
                          !.position = out.result.position,
                          !.already_existed = out.result.already_existed,
                          !.message = IF out.result.id # EmptyString
                                      THEN "User limit reached, added/found on waitlist"
                                      ELSE "User limit reached, failed to add to waitlist"])
    /\ UNCHANGED <<settings, registered, policyChanges, req>>

\* Scenario: user limit reached -> handleUserLimitReached
RegUserLimitReached(r) ==
    LET limit == loc[r].settings.waitlist_limit
        data == [username |-> loc[r].identifier, metadata |-> Nil]
        out == insertUser(redis, uuidv4(r), data, limit)
    IN
    /\ Fetched(r)
    /\ ~loc[r].userExists
    /\ userLimitReached(loc[r].settings)
    /\ redis' = out.db
    /\ ins' = [ins EXCEPT ![r] = InsRecord(out, data.username, limit)]
    /\ IF out.outcome = "threw"
       THEN Respond(r, [NoResp EXCEPT !.status = 500,
                          !.message = "Failed to add to waitlist during user limit check"])
       ELSE Respond(r, [NoResp EXCEPT !.status = 200,
                          !.on_waitlist = out.result.id # EmptyString,
                          !.position = out.result.position,
                          !.already_existed = out.result.already_existed,
                          !.message = IF out.result.id # EmptyString
                                      THEN "User limit reached, added/found on waitlist"
                                      ELSE "User limit reached, failed to add to waitlist"])
    /\ UNCHANGED <<settings, registered, policyChanges, req>>

\* Faulty variant: insertUser is called for a user known to be on the waitlist
\* as well.
RegWaitlistOnly_AlwaysInserts(r) ==
    LET limit == loc[r].settings.waitlist_limit
        data == [username |-> loc[r].identifier, metadata |-> Nil]
        out == insertUser(redis, uuidv4(r), data, limit)
    IN
    /\ Fetched(r)
    /\ ~loc[r].userExists
    /\ ~userLimitReached(loc[r].settings)
    /\ loc[r].settings.allowed_registrations = "waitlist"
    /\ ~isWaitlistEligible(loc[r].waitlistPosition, loc[r].settings)
    /\ redis' = out.db
    /\ ins' = [ins EXCEPT ![r] = InsRecord(out, data.username, limit)]
    /\ IF out.outcome = "threw"
       THEN Respond(r, [NoResp EXCEPT !.status = 500,
                          !.message = "Failed to add to waitlist in waitlist-only mode"])
       ELSE Respond(r, [NoResp EXCEPT !.status = 200,
                          !.on_waitlist = out.result.id # EmptyString,
                          !.position = out.result.position,
                          !.already_existed = out.result.already_existed,
                          !.message = IF isUserOnWaitlist(loc[r].waitlistPosition)
                                      THEN "On waitlist, but not yet eligible for signup"
                                      ELSE "Added to waitlist (waitlist only mode)"])
    /\ UNCHANGED <<settings, registered, policyChanges, req>>

\* Scenario: waitlist-only and not eligible -> handleWaitlistOnlyRegistration
RegWaitlistOnly(r) ==
    LET limit == loc[r].settings.waitlist_limit
        data == [username |-> loc[r].identifier, metadata |-> Nil]
        out == insertUser(redis, uuidv4(r), data, limit)
    IN
    /\ Fetched(r)
    /\ ~loc[r].userExists
    /\ ~userLimitReached(loc[r].settings)
    /\ loc[r].settings.allowed_registrations = "waitlist"
    /\ ~isWaitlistEligible(loc[r].waitlistPosition, loc[r].settings)
    /\ IF ~isUserOnWaitlist(loc[r].waitlistPosition)
       THEN /\ redis' = out.db
            /\ ins' = [ins EXCEPT ![r] = InsRecord(out, data.username, limit)]
            /\ IF out.outcome = "threw"
               THEN Respond(r, [NoResp EXCEPT !.status = 500,
                                  !.message = "Failed to add to waitlist in waitlist-only mode"])
               ELSE Respond(r, [NoResp EXCEPT !.status = 200,
                                  !.on_waitlist = out.result.id # EmptyString,
                                  !.position = out.result.position,
                                  !.already_existed = out.result.already_existed,
                                  !.message = "Added to waitlist (waitlist only mode)"])
       ELSE /\ Respond(r, [NoResp EXCEPT !.status = 200, !.on_waitlist = TRUE,
                              !.position = loc[r].waitlistPosition,
                              !.message = "On waitlist, but not yet eligible for signup"])
            /\ UNCHANGED <<redis, ins>>
    /\ UNCHANGED <<settings, registered, policyChanges, req>>

\* The guard of the last two scenarios: none of the earlier returns was taken.
RegistrationAllowed(r) ==
    /\ Fetched(r)
    /\ ~loc[r].userExists
    /\ ~userLimitReached(loc[r].settings)
    /\ ~(/\ loc[r].settings.allowed_registrations = "waitlist"
         /\ ~isWaitlistEligible(loc[r].waitlistPosition, loc[r].settings))

\* checkWaitlistRegistrationBlocks answered and returned true
RegBlocked(r) ==
    LET check == checkWaitlistRegistrationBlocks(loc[r].waitlistPosition, loc[r].settings,
                                                 isUserOnWaitlist(loc[r].waitlistPosition))
    IN
    /\ RegistrationAllowed(r)
    /\ check.blocked
    /\ Respond(r, [NoResp EXCEPT !.status = 200, !.on_waitlist = TRUE,
                      !.position = loc[r].waitlistPosition,
                      !.message = check.message])
    /\ UNCHANGED <<redis, settings, registered, policyChanges, req, ins>>

\* Faulty variant: a successful registration takes the user off the waitlist.
RegAttempt_RemovesFromWaitlist(r) ==
    LET check == checkWaitlistRegistrationBlocks(loc[r].waitlistPosition, loc[r].settings,
                                                 isUserOnWaitlist(loc[r].waitlistPosition))
        commit == increment_user_count(settings, registered, loc[r].identifier)
        userId == IF HGET(redis.emails, loc[r].identifier) # Nil
                  THEN HGET(redis.emails, loc[r].identifier)
                  ELSE HGET(redis.phones, loc[r].identifier)
    IN
    /\ RegistrationAllowed(r)
    /\ ~check.blocked
    /\ \E registrationSuccess \in BOOLEAN :
          IF registrationSuccess
          THEN /\ registered' = commit.registered
               /\ settings' = commit.settings
               /\ redis' = [redis EXCEPT !.waitlist = SelectSeq(@, LAMBDA x : x # userId)]
               /\ Respond(r, [NoResp EXCEPT !.status = 200, !.registered_signup = TRUE,
                                 !.on_waitlist = isUserOnWaitlist(loc[r].waitlistPosition),
                                 !.position = loc[r].waitlistPosition,
                                 !.message =
                                     IF isUserOnWaitlist(loc[r].waitlistPosition)
                                     THEN "User successfully registered (was on waitlist)"
                                     ELSE "User successfully registered"])
          ELSE /\ UNCHANGED <<registered, settings, redis>>
               /\ Respond(r, [NoResp EXCEPT !.status = 500,
                                 !.on_waitlist = isUserOnWaitlist(loc[r].waitlistPosition),
                                 !.position = loc[r].waitlistPosition,
                                 !.message = "Registration failed due to a database issue."])
    /\ UNCHANGED <<policyChanges, req, ins>>

\* Faulty variant: when the registration fails the user is put on the
\* waitlist instead.
RegAttempt_FallsBackToWaitlist(r) ==
    LET check == checkWaitlistRegistrationBlocks(loc[r].waitlistPosition, loc[r].settings,
                                                 isUserOnWaitlist(loc[r].waitlistPosition))
        commit == increment_user_count(settings, registered, loc[r].identifier)
        limit == loc[r].settings.waitlist_limit
        data == [username |-> loc[r].identifier, metadata |-> Nil]
        out == insertUser(redis, uuidv4(r), data, limit)
    IN
    /\ RegistrationAllowed(r)
    /\ ~check.blocked
    /\ \E registrationSuccess \in BOOLEAN :
          IF registrationSuccess
          THEN /\ registered' = commit.registered
               /\ settings' = commit.settings
               /\ UNCHANGED <<redis, ins>>
               /\ Respond(r, [NoResp EXCEPT !.status = 200, !.registered_signup = TRUE,
                                 !.on_waitlist = isUserOnWaitlist(loc[r].waitlistPosition),
                                 !.position = loc[r].waitlistPosition,
                                 !.message =
                                     IF isUserOnWaitlist(loc[r].waitlistPosition)
                                     THEN "User successfully registered (was on waitlist)"
                                     ELSE "User successfully registered"])
          ELSE /\ UNCHANGED <<registered, settings>>
               /\ redis' = out.db
               /\ ins' = [ins EXCEPT ![r] = InsRecord(out, data.username, limit)]
               /\ Respond(r, [NoResp EXCEPT !.status = 500,
                                 !.on_waitlist = out.result.id # EmptyString,
                                 !.position = out.result.position,
                                 !.message = "Registration failed due to a database issue."])
    /\ UNCHANGED <<policyChanges, req>>

\* attemptUserRegistration: registerNewUser calls increment_user_count; an RPC
\* error, an exception or a falsy answer is a failed registration.
RegAttempt(r) ==
    LET check == checkWaitlistRegistrationBlocks(loc[r].waitlistPosition, loc[r].settings,
                                                 isUserOnWaitlist(loc[r].waitlistPosition))
        commit == increment_user_count(settings, registered, loc[r].identifier)
    IN
    /\ RegistrationAllowed(r)
    /\ ~check.blocked
    /\ \E registrationSuccess \in BOOLEAN :
          IF registrationSuccess
          THEN /\ registered' = commit.registered
               /\ settings' = commit.settings
               /\ Respond(r, [NoResp EXCEPT !.status = 200, !.registered_signup = TRUE,
                                 !.on_waitlist = isUserOnWaitlist(loc[r].waitlistPosition),
                                 !.position = loc[r].waitlistPosition,
                                 !.message =
                                     IF isUserOnWaitlist(loc[r].waitlistPosition)
                                     THEN "User successfully registered (was on waitlist)"
                                     ELSE "User successfully registered"])
          ELSE /\ UNCHANGED <<registered, settings>>
               /\ Respond(r, [NoResp EXCEPT !.status = 500,
                                 !.on_waitlist = isUserOnWaitlist(loc[r].waitlistPosition),
                                 !.position = loc[r].waitlistPosition,
                                 !.message = "Registration failed due to a database issue."])
    /\ UNCHANGED <<redis, policyChanges, req, ins>>

(***************************************************************************)
(* waitlistUserCanSignUpController                                         *)
(***************************************************************************)
\* Validation of the query's username.
CanSignUpStart(r, username) ==
    LET validation == validateAndSanitizeUsername(username) IN
    /\ Arrives(r, "waitlist-user-can-sign-up", username)
    /\ IF ~validation.isValid \/ validation.sanitizedIdentifier = Nil
       THEN Respond(r, BadRequest)
       ELSE /\ pc' = [pc EXCEPT ![r] = "can_fetch"]
            /\ loc' = [loc EXCEPT ![r] =
                         [NoLoc EXCEPT !.identifier = validation.sanitizedIdentifier,
                                       !.pending = {"exists", "onWaitlist", "settings"}]]
            /\ resp' = resp
    /\ UNCHANGED <<redis, settings, registered, policyChanges, ins>>

\* Step 1: Promise.all([checkUserExists, isOnWaitlist,
\* getCurrentOnboardingSettings]): three reads, each at its own moment.
CanSignUpCheckUserExists(r) ==
    /\ pc[r] = "can_fetch"
    /\ "exists" \in loc[r].pending
    /\ \E rpcError \in BOOLEAN :
          loc' = [loc EXCEPT
                    ![r].userExists = IF rpcError THEN FALSE
                                      ELSE check_user_exists(registered, loc[r].identifier),
                    ![r].existsError = rpcError,
                    ![r].pending = @ \ {"exists"}]
    /\ UNCHANGED <<redis, settings, registered, policyChanges, pc, req, ins, resp>>

CanSignUpIsOnWaitlist(r) ==
    /\ pc[r] = "can_fetch"
    /\ "onWaitlist" \in loc[r].pending
    /\ loc' = [loc EXCEPT
                 ![r].userIsOnWaitlist = isOnWaitlist(redis, loc[r].identifier),
                 ![r].pending = @ \ {"onWaitlist"}]
    /\ UNCHANGED <<redis, settings, registered, policyChanges, pc, req, ins, resp>>

CanSignUpGetSettings(r) ==
    /\ pc[r] = "can_fetch"
    /\ "settings" \in loc[r].pending
    /\ loc' = [loc EXCEPT ![r].settings = settings, ![r].pending = @ \ {"settings"}]
    /\ UNCHANGED <<redis, settings, registered, policyChanges, pc, req, ins, resp>>

\* getCurrentOnboardingSettings throws: the catch block answers 500.
CanSignUpGetSettingsFails(r) ==
    /\ pc[r] = "can_fetch"
    /\ "settings" \in loc[r].pending
    /\ Respond(r, [NoResp EXCEPT !.status = 500, !.message = "Internal server error"])
    /\ UNCHANGED <<redis, settings, registered, policyChanges, req, ins>>

\* Faulty variant: the position at the cutoff may not sign up.
canSignUp_BelowCutoff(position, s) ==
    /\ s.signup_cutoff >= 0
    /\ position < s.signup_cutoff

\* const canSignUp = settings.signup_cutoff >= 0 && position <= settings.signup_cutoff
canSignUp(position, s) ==
    /\ s.signup_cutoff >= 0
    /\ position <= s.signup_cutoff

\* Scenario: user is already registered.  On the waitlist, the position is
\* read with a further call.
CanSignUpRegistered(r) ==
    /\ pc[r] = "can_fetch" /\ loc[r].pending = {}
    /\ loc[r].userExists
    /\ IF loc[r].userIsOnWaitlist
       THEN /\ pc' = [pc EXCEPT ![r] = "can_position"]
            /\ UNCHANGED <<loc, resp>>
       ELSE Respond(r, [NoResp EXCEPT !.status = 200, !.already_registered = TRUE,
                                      !.message = "User is already registered."])
    /\ UNCHANGED <<redis, settings, registered, policyChanges, req, ins>>

\* Scenario: not registered and not on the waitlist.
CanSignUpNotOnWaitlist(r) ==
    /\ pc[r] = "can_fetch" /\ loc[r].pending = {}
    /\ ~loc[r].userExists
    /\ ~loc[r].userIsOnWaitlist
    /\ Respond(r, [NoResp EXCEPT !.status = 200])
    /\ UNCHANGED <<redis, settings, registered, policyChanges, req, ins>>

\* Scenario: not registered, on the waitlist: the position is read next.
CanSignUpOnWaitlist(r) ==
    /\ pc[r] = "can_fetch" /\ loc[r].pending = {}
    /\ ~loc[r].userExists
    /\ loc[r].userIsOnWaitlist
    /\ pc' = [pc EXCEPT ![r] = "can_position"]
    /\ UNCHANGED <<redis, settings, registered, policyChanges, req, loc, ins, resp>>

\* const position = await getPositionByIdentifier(redis, identifier), then
\* the response of the scenario.
CanSignUpPosition(r) ==
    LET position == getPositionByIdentifier(redis, loc[r].identifier) IN
    /\ pc[r] = "can_position"
    /\ IF loc[r].userExists
       THEN Respond(r, [NoResp EXCEPT !.status = 200, !.already_registered = TRUE,
                                      !.on_waitlist = loc[r].userIsOnWaitlist,
                                      !.position = position,
                                      !.message = "User is already registered."])
       ELSE Respond(r, [NoResp EXCEPT !.status = 200, !.on_waitlist = TRUE,
                                      !.can_sign_up = canSignUp(position, loc[r].settings),
                                      !.position = position])
    /\ UNCHANGED <<redis, settings, registered, policyChanges, req, ins>>

(***************************************************************************)
(* The system.                                                             *)
(***************************************************************************)
Next ==
    \/ SetWaitlistLimit
    \/ SetRegistrationPolicy
    \/ \E r \in Requests, u \in RawUsernames : AddToWaitlistStart(r, u)
    \/ \E r \in Requests, u \in RawUsernames : RegisterUserStart(r, u)
    \/ \E r \in Requests : AddInsert(r)
    \/ \E r \in Requests : RegCheckUserExists(r)
    \/ \E r \in Requests : RegGetSettings(r)
    \/ \E r \in Requests : RegGetSettingsFails(r)
    \/ \E r \in Requests : RegGetPosition(r)
    \/ \E r \in Requests : RegExisting(r)
    \/ \E r \in Requests : RegUserLimitReached(r)
    \/ \E r \in Requests : RegWaitlistOnly(r)
    \/ \E r \in Requests : RegBlocked(r)
    \/ \E r \in Requests : RegAttempt(r)

Spec == Init /\ [][Next]_vars

(***************************************************************************)
(* Vocabulary of the properties.                                           *)
(***************************************************************************)
\* The identities requests can carry.
Identifiers ==
    { validateAndSanitizeUsername(u).sanitizedIdentifier :
        u \in {v \in RawUsernames : validateAndSanitizeUsername(v).isValid} }

\* The entryId the identity index holds for an identity, Nil when none.
IndexedId(db, identity) ==
    IF HGET(db.emails, identity) # Nil THEN HGET(db.emails, identity)
    ELSE HGET(db.phones, identity)

\* The identity an insertUser call carries.
CallIdentity(r) ==
    LET san == SanitizeForInsert(ins[r].username) IN
    IF san.email # Nil THEN san.email ELSE san.phone

Called(r) == ins[r].outcome # "none"
Full(r) == ins[r].outcome = "threw"
Admitted(r) == ins[r].outcome = "returned" /\ ins[r].id # EmptyString
Created(r) == Admitted(r) /\ ~ins[r].already_existed


(***************************************************************************)
(* C1.  Dedup under race: the insertUser calls that carry one identity and *)
(* succeed, however they interleave, create exactly one entry; all of them *)
(* return the same entryId and position, and already_existed is false for  *)
(* exactly one of them (true for the N-1 others).                          *)
(***************************************************************************)
C1_DedupUnderRace ==
    \A k \in Identifiers :
        LET calls == {r \in Requests : Admitted(r) /\ CallIdentity(r) = k}
            ids == {ins[r].id : r \in calls}
        IN calls # {} =>
             /\ \A r1, r2 \in calls :
                   /\ ins[r1].id = ins[r2].id
                   /\ ins[r1].position = ins[r2].position
             /\ Cardinality({r \in calls : ~ins[r].already_existed}) = 1
             /\ Cardinality({r \in calls : ins[r].already_existed})
                   = Cardinality(calls) - 1
             /\ Cardinality({i \in 1..Len(redis.waitlist) : redis.waitlist[i] \in ids}) = 1
             /\ Cardinality(ids \cap DOMAIN redis.users) = 1

\* Two calls raced on one identity: the request that arrived first found the
\* entry the later one had already created.
C1_Witness ==
    \E r1, r2 \in Requests :
        /\ r1 < r2
        /\ Admitted(r1) /\ Admitted(r2)
        /\ CallIdentity(r1) = CallIdentity(r2)
        /\ ins[r1].already_existed
        /\ ~ins[r2].already_existed

\* The identities a store has indexed.
Indexed(db) == DOMAIN db.emails \cup DOMAIN db.phones

\* A call whose identity the store had not indexed when the script ran.
CalledNew(r) == Called(r) /\ CallIdentity(r) # Nil /\ IndexedId(ins[r].before, CallIdentity(r)) = Nil

\* A call whose identity the store had indexed when the script ran.
CalledExisting(r) == Called(r) /\ CallIdentity(r) # Nil /\ IndexedId(ins[r].before, CallIdentity(r)) # Nil

(***************************************************************************)
(* C2.  Capacity enforcement: as long as every insertUser call has passed  *)
(* the same capacity K, the queue holds at most K entries, and every call  *)
(* for an identity not yet indexed that ran when K distinct identities     *)
(* were admitted failed with 'Waitlist is full' and appended nothing.      *)
(***************************************************************************)
C2_CapacityEnforced ==
    \A K \in 0..MaxWaitlistLimit :
        (\A r \in Requests : Called(r) => ins[r].limit = K) =>
            /\ Len(redis.waitlist) <= K
            /\ \A r \in Requests :
                  (CalledNew(r) /\ Cardinality(Indexed(ins[r].before)) >= K) =>
                      /\ Full(r)
                      /\ ins[r].after.waitlist = ins[r].before.waitlist

\* With capacity 1 passed by both calls, the second identity was turned away
\* from the full queue.
C2_Witness ==
    \E r1, r2 \in Requests :
        /\ Created(r1) /\ Full(r2)
        /\ ins[r1].limit = ins[r2].limit
        /\ ins[r2].limit >= 1
        /\ Len(ins[r2].before.waitlist) = ins[r2].limit

(***************************************************************************)
(* C3.  As stated: the queue never holds more entries than the             *)
(* waitlist_limit of the current onboarding settings.                      *)
(***************************************************************************)
C3_QueueWithinCurrentLimit == Len(redis.waitlist) <= settings.waitlist_limit

(***************************************************************************)
(* C3, amended.  The queue never holds more entries than the capacity its  *)
(* newest entry was admitted under: every admission that appended an entry *)
(* got a position no greater than the waitlist_limit it had read, and the  *)
(* last position is one of those.                                          *)
(***************************************************************************)
C3_QueueWithinAdmittingLimit ==
    /\ \A r \in Requests : Created(r) => ins[r].position <= ins[r].limit
    /\ Len(redis.waitlist) > 0 =>
          \E r \in Requests :
              /\ Created(r)
              /\ ins[r].position = Len(redis.waitlist)
              /\ Len(redis.waitlist) <= ins[r].limit

\* The registry lowered waitlist_limit below the length the queue had reached.
C3_Witness ==
    /\ Len(redis.waitlist) > settings.waitlist_limit
    /\ \E r \in Requests : Created(r) /\ ins[r].position = Len(redis.waitlist)

(***************************************************************************)
(* C4.  Dense positions: whatever insertUser calls have run, the positions *)
(* of the admitted identities are exactly 1..Len(queue), each held by one  *)
(* entry; no position is missing and none is held twice; the positions the *)
(* calls handed out are those positions.                                   *)
(***************************************************************************)
C4_PositionsDense ==
    LET n == Len(redis.waitlist) IN
    /\ {getPositionByIdentifier(redis, k) : k \in Indexed(redis)} = 1..n
    /\ Cardinality(Indexed(redis)) = n
    /\ \A i, j \in 1..n : redis.waitlist[i] = redis.waitlist[j] => i = j
    /\ {ins[r].position : r \in {q \in Requests : Created(q)}} = 1..n
    /\ \A r \in Requests : Admitted(r) => ins[r].position \in 1..n

\* Two entries have been admitted, at positions 1 and 2.
C4_Witness ==
    /\ Len(redis.waitlist) = 2
    /\ \E r1, r2 \in Requests :
          /\ Created(r1) /\ ins[r1].position = 1
          /\ Created(r2) /\ ins[r2].position = 2

C6_IdentityIndexStable ==
    /\ \A k \in Identifiers : ~(k \in DOMAIN redis.emails /\ k \in DOMAIN redis.phones)
    /\ \A r \in Requests : Admitted(r) => IndexedId(redis, CallIdentity(r)) = ins[r].id
    /\ \A r \in Requests, k \in Identifiers :
          (Called(r) /\ IndexedId(ins[r].before, k) # Nil) =>
              /\ IndexedId(ins[r].after, k) = IndexedId(ins[r].before, k)
              /\ IndexedId(redis, k) = IndexedId(ins[r].before, k)

\* A register-user request ran insertUser on an identity that was indexed.
C6_Witness ==
    \E r \in Requests :
        /\ req[r].endpoint = "register-user"
        /\ CalledExisting(r)
        /\ ins[r].id # uuidv4(r)

C8_ExistenceBeforeCapacity ==
    \A r \in Requests :
        (CalledExisting(r) /\ Len(ins[r].before.waitlist) >= ins[r].limit) =>
            /\ ~Full(r)
            /\ ins[r].already_existed
            /\ ins[r].id = IndexedId(ins[r].before, CallIdentity(r))
            /\ ins[r].position = IndexOf(ins[r].before.waitlist, ins[r].id)
            /\ ins[r].position >= 1

\* An indexed identity was looked up with capacity zero.
C8_Witness ==
    \E r \in Requests :
        /\ CalledExisting(r)
        /\ ins[r].limit = 0
        /\ Len(ins[r].before.waitlist) > ins[r].limit

(***************************************************************************)
(* C9.  New admission: a successful insertUser for an identity not yet     *)
(* indexed appends one entry, returns already_existed false and the queue  *)
(* length after the append as position, and indexes the identity under the *)
(* key the lookups use: isOnWaitlist is true at once, and                  *)
(* getPositionByIdentifier and getPosition of the returned entryId give    *)
(* that position.                                                          *)
(***************************************************************************)
C9_NewAdmission ==
    \A r \in Requests :
        (CalledNew(r) /\ ins[r].outcome = "returned") =>
            LET b == ins[r].before
                a == ins[r].after
                key == validateAndSanitizeUsername(req[r].username).sanitizedIdentifier
            IN
            /\ a.waitlist = Append(b.waitlist, ins[r].id)
            /\ ~ins[r].already_existed
            /\ ins[r].position = Len(a.waitlist)
            /\ isOnWaitlist(a, key)
            /\ getPositionByIdentifier(a, key) = ins[r].position
            /\ getPosition(a, ins[r].id) = ins[r].position

\* A phone number was admitted behind another entry.
C9_Witness ==
    \E r \in Requests :
        /\ CalledNew(r)
        /\ ins[r].outcome = "returned"
        /\ ins[r].position = 2
        /\ SanitizeForInsert(ins[r].username).phone # Nil

(***************************************************************************)
(* C10.  'Waitlist is full' changes nothing: the queue, the identity index *)
(* and the stored records are as before the call, and the caller of        *)
(* add-to-waitlist or register-user gets a failure: status 500, no         *)
(* success, no registration, not on the waitlist, position 0.              *)
(***************************************************************************)
C10_FullChangesNothing ==
    \A r \in Requests : Full(r) =>
        /\ ins[r].after = ins[r].before
        /\ pc[r] = "done"
        /\ resp[r].status = 500
        /\ ~resp[r].success
        /\ ~resp[r].registered_signup
        /\ ~resp[r].on_waitlist
        /\ resp[r].position = 0
        /\ ~resp[r].already_existed

\* A register-user request was turned away from the full waitlist.
C10_Witness ==
    \E r \in Requests :
        /\ Full(r)
        /\ req[r].endpoint = "register-user"
        /\ resp[r].status = 500

\* The request has read the identity's position and not yet answered.
PositionRead(r) == pc[r] = "reg_fetch" /\ "position" \notin loc[r].pending

(***************************************************************************)
(* C11.  No partial enqueue is visible: in every state a lookup can run    *)
(* in, while other requests have insertUser ahead of them, every entryId   *)
(* in the queue belongs to an indexed identity and every indexed identity's*)
(* entryId is in the queue; a position a request has read is the position  *)
(* before the identity's enqueue (0) or the one after it.                  *)
(***************************************************************************)
C11_NoPartialEnqueue ==
    /\ \A i \in 1..Len(redis.waitlist) :
          \E k \in Indexed(redis) : IndexedId(redis, k) = redis.waitlist[i]
    /\ \A k \in Indexed(redis) :
          /\ isOnWaitlist(redis, k)
          /\ getPositionByIdentifier(redis, k) >= 1
          /\ getPosition(redis, IndexedId(redis, k)) = getPositionByIdentifier(redis, k)
          /\ IndexedId(redis, k) \in DOMAIN redis.users
    /\ \A k \in Identifiers \ Indexed(redis) :
          /\ ~isOnWaitlist(redis, k)
          /\ getPositionByIdentifier(redis, k) = 0
    /\ \A r \in Requests : PositionRead(r) =>
          loc[r].waitlistPosition
             \in {0, getPositionByIdentifier(redis, loc[r].identifier)}

\* A lookup saw the entry of a request that arrived after its own, while
\* that request's insertUser was the last thing to touch the store.
C11_Witness ==
    \E r1, r2 \in Requests :
        /\ r1 < r2
        /\ PositionRead(r1)
        /\ loc[r1].waitlistPosition > 0
        /\ Created(r2)
        /\ CallIdentity(r2) = loc[r1].identifier
        /\ ins[r2].after = redis

(***************************************************************************)
(* One register-user or waitlist-user-can-sign-up request over every input *)
(* of its decision: any waitlist the identities can form, the identity     *)
(* signed up or not, any onboarding settings.  The request has passed      *)
(* validation; its reads and the scenario they select follow.              *)
(***************************************************************************)
EvalPolicies ==
    [signed_up_users : 0..MaxSignedUp,
     signed_up_user_limit : 0..MaxSignedUp,
     waitlist_limit : 0..MaxWaitlistLimit,
     signup_cutoff : (0 - 1)..MaxCutoff,
     allowed_registrations : AllowedRegistrations]

\* The orders in which identities can have joined the waitlist.
EvalQueues ==
    { q \in UNION { [1..n -> Identifiers] : n \in 0..Cardinality(Identifiers) } :
        \A i, j \in DOMAIN q : q[i] = q[j] => i = j }

\* The ids of the entries that joined before the request.
SeedId(i) == <<"uuid", 0 - i>>

\* The waitlist keys after insertUser has admitted usernames in order.
RECURSIVE SeededStore(_)
SeededStore(usernames) ==
    LET n == Len(usernames) IN
    IF n = 0 THEN EmptyStore
    ELSE insertUser(SeededStore(SubSeq(usernames, 1, n - 1)), SeedId(n),
                    [username |-> usernames[n], metadata |-> Nil], n).db

EvalInit ==
    \E u \in {v \in RawUsernames : validateAndSanitizeUsername(v).isValid},
       q \in EvalQueues, signedUp \in BOOLEAN,
       endpoint \in {"register-user", "waitlist-user-can-sign-up"} :
        LET identifier == validateAndSanitizeUsername(u).sanitizedIdentifier
            register == endpoint = "register-user"
        IN
        /\ redis = SeededStore(q)
        /\ settings \in EvalPolicies
        /\ registered = IF signedUp THEN {identifier} ELSE {}
        /\ policyChanges = 0
        /\ pc = [r \in Requests |->
                   IF r # 1 THEN "idle"
                   ELSE IF register THEN "reg_fetch" ELSE "can_fetch"]
        /\ req = [r \in Requests |->
                    IF r = 1 THEN [endpoint |-> endpoint, username |-> u]
                    ELSE NoReq]
        /\ loc = [r \in Requests |->
                    IF r = 1
                    THEN [NoLoc EXCEPT
                            !.identifier = identifier,
                            !.pending = IF register
                                        THEN {"exists", "settings", "position"}
                                        ELSE {"exists", "onWaitlist", "settings"}]
                    ELSE NoLoc]
        /\ ins = [r \in Requests |-> NoIns]
        /\ resp = [r \in Requests |-> NoResp]

NextEval ==
    \/ \E r \in Requests : RegCheckUserExists(r)
    \/ \E r \in Requests : RegGetSettings(r)
    \/ \E r \in Requests : RegGetSettingsFails(r)
    \/ \E r \in Requests : RegGetPosition(r)
    \/ \E r \in Requests : RegExisting(r)
    \/ \E r \in Requests : RegUserLimitReached(r)
    \/ \E r \in Requests : RegWaitlistOnly(r)
    \/ \E r \in Requests : RegBlocked(r)
    \/ \E r \in Requests : RegAttempt(r)
    \/ \E r \in Requests : CanSignUpCheckUserExists(r)
    \/ \E r \in Requests : CanSignUpIsOnWaitlist(r)
    \/ \E r \in Requests : CanSignUpGetSettings(r)
    \/ \E r \in Requests : CanSignUpGetSettingsFails(r)
    \/ \E r \in Requests : CanSignUpRegistered(r)
    \/ \E r \in Requests : CanSignUpNotOnWaitlist(r)
    \/ \E r \in Requests : CanSignUpOnWaitlist(r)
    \/ \E r \in Requests : CanSignUpPosition(r)

SpecEval == EvalInit /\ [][NextEval]_vars

(***************************************************************************)
(* The system started on a Redis that holds a waitlist from before: any    *)
(* order in which identities can have joined.                              *)
(***************************************************************************)
SeededInit ==
    /\ redis \in {SeededStore(q) : q \in EvalQueues}
    /\ settings \in PolicyValues
    /\ registered = {}
    /\ policyChanges = 0
    /\ pc = [r \in Requests |-> "idle"]
    /\ req = [r \in Requests |-> NoReq]
    /\ loc = [r \in Requests |-> NoLoc]
    /\ ins = [r \in Requests |-> NoIns]
    /\ resp = [r \in Requests |-> NoResp]

SpecSeeded == SeededInit /\ [][Next]_vars

(***************************************************************************)
(* register-user calls made one after the other, each sent when the one    *)
(* before it has been answered, on a Redis that holds a waitlist and a     *)
(* registry that holds sign-ups from before.                               *)
(***************************************************************************)
SequentialInit ==
    \E q \in EvalQueues, signedUp \in SUBSET Identifiers, s \in PolicyValues :
        /\ redis = SeededStore(q)
        /\ registered = signedUp
        /\ settings = [s EXCEPT !.signed_up_users = Cardinality(signedUp)]
        /\ policyChanges = 0
        /\ pc = [r \in Requests |-> "idle"]
        /\ req = [r \in Requests |-> NoReq]
        /\ loc = [r \in Requests |-> NoLoc]
        /\ ins = [r \in Requests |-> NoIns]
        /\ resp = [r \in Requests |-> NoResp]

\* The client sends its next call when it has the answer to the last one.
RegisterUserInTurn(r, username) ==
    /\ \A q \in Requests : pc[q] \in {"idle", "done"}
    /\ RegisterUserStart(r, username)

NextSequential ==
    \/ \E r \in Requests, u \in RawUsernames : RegisterUserInTurn(r, u)
    \/ \E r \in Requests : RegCheckUserExists(r)
    \/ \E r \in Requests : RegGetSettings(r)
    \/ \E r \in Requests : RegGetSettingsFails(r)
    \/ \E r \in Requests : RegGetPosition(r)
    \/ \E r \in Requests : RegExisting(r)
    \/ \E r \in Requests : RegUserLimitReached(r)
    \/ \E r \in Requests : RegWaitlistOnly(r)
    \/ \E r \in Requests : RegBlocked(r)
    \/ \E r \in Requests : RegAttempt(r)

SpecSequential == SequentialInit /\ [][NextSequential]_vars

(***************************************************************************)
(* waitlist-user-can-sign-up requests racing with add-to-waitlist          *)
(* requests, on a Redis and a registry that hold earlier admissions and    *)
(* sign-ups.                                                               *)
(***************************************************************************)
NextLookup ==
    \/ \E r \in Requests, u \in RawUsernames : AddToWaitlistStart(r, u)
    \/ \E r \in Requests : AddInsert(r)
    \/ \E r \in Requests, u \in RawUsernames : CanSignUpStart(r, u)
    \/ \E r \in Requests : CanSignUpCheckUserExists(r)
    \/ \E r \in Requests : CanSignUpIsOnWaitlist(r)
    \/ \E r \in Requests : CanSignUpGetSettings(r)
    \/ \E r \in Requests : CanSignUpGetSettingsFails(r)
    \/ \E r \in Requests : CanSignUpRegistered(r)
    \/ \E r \in Requests : CanSignUpNotOnWaitlist(r)
    \/ \E r \in Requests : CanSignUpOnWaitlist(r)
    \/ \E r \in Requests : CanSignUpPosition(r)

SpecLookup == SequentialInit /\ [][NextLookup]_vars

(***************************************************************************)
(* Vocabulary of the decision properties.                                  *)
(***************************************************************************)
\* The scenario a register-user response comes from.
BranchOf(message) ==
    CASE message = "User is already registered" -> "AlreadyRegistered"
      [] message \in {"User limit reached, added/found on waitlist",
                      "User limit reached, failed to add to waitlist",
                      "Failed to add to waitlist during user limit check"}
            -> "CapacityExhausted"
      [] message \in {"Added to waitlist (waitlist only mode)",
                      "On waitlist, but not yet eligible for signup",
                      "Failed to add to waitlist in waitlist-only mode"}
            -> "WaitlistOnlyIneligible"
      [] message \in {"Signup currently closed for waitlist users (negative cutoff)",
                      "On waitlist, but not yet eligible for signup based on cutoff"}
            -> "BlockedByCutoff"
      [] message \in {"User successfully registered",
                      "User successfully registered (was on waitlist)",
                      "Registration failed due to a database issue."}
            -> "EligibleToRegister"
      [] OTHER -> "none"

\* The cutoff test of the reference evaluator.
CutoffEligible(position, signupCutoff) ==
    position > 0 /\ signupCutoff >= 0 /\ position <= signupCutoff

\* The reference evaluator, first match wins.
Evaluate(alreadyRegistered, position, registrationCap, registeredCount,
         signupCutoff, registrationMode) ==
    IF alreadyRegistered THEN "AlreadyRegistered"
    ELSE IF registrationCap > 0 /\ registeredCount >= registrationCap
    THEN "CapacityExhausted"
    ELSE IF registrationMode = "waitlist" /\ ~CutoffEligible(position, signupCutoff)
    THEN "WaitlistOnlyIneligible"
    ELSE IF position > 0 /\ ~CutoffEligible(position, signupCutoff)
    THEN "BlockedByCutoff"
    ELSE "EligibleToRegister"

\* The reference evaluator on the values request r has fetched.
EvaluateFor(r) ==
    Evaluate(loc[r].userExists, loc[r].waitlistPosition,
             loc[r].settings.signed_up_user_limit, loc[r].settings.signed_up_users,
             loc[r].settings.signup_cutoff, loc[r].settings.allowed_registrations)

\* Request r, its three values fetched, answers in this step.
Decides(r) == Fetched(r) /\ pc'[r] = "done"

\* The scenario request r answers from in this step.
Branch(r) == BranchOf(resp'[r].message)

(***************************************************************************)
(* C13.  Decision order: for every already-registered flag, position,      *)
(* sign-up limit, sign-up count, cutoff and mode, the scenario             *)
(* registerUserController answers from is the reference evaluator's        *)
(* outcome: AlreadyRegistered, then CapacityExhausted, then                *)
(* WaitlistOnlyIneligible, then BlockedByCutoff, else EligibleToRegister.  *)
(***************************************************************************)
C13_BranchIsEvaluate ==
    [][\A r \in Requests : Decides(r) => Branch(r) = EvaluateFor(r)]_vars

\* A queued identity got past the first three checks and was stopped by the
\* cutoff.
C13_Witness ==
    \E r \in Requests :
        /\ pc[r] = "done"
        /\ BranchOf(resp[r].message) = "BlockedByCutoff"
        /\ resp[r].position = 2

\* The sign-up limit of the settings request r fetched is reached.
CapacityExhausted(r) ==
    /\ loc[r].settings.signed_up_user_limit > 0
    /\ loc[r].settings.signed_up_users >= loc[r].settings.signed_up_user_limit

\* The identity of request r passes the reference cutoff test on the values
\* the request fetched.
CutoffEligibleFor(r) ==
    CutoffEligible(loc[r].waitlistPosition, loc[r].settings.signup_cutoff)

\* This step registers nobody.
NoCommit == registered' = registered /\ settings' = settings

(***************************************************************************)
(* C14.  Already registered: when check_user_exists answers true, the      *)
(* response is the already-registered one and carries the position the     *)
(* identity has on the waitlist, 0 when it is not there, whatever the      *)
(* settings are; the waitlist keys are not written and nobody is           *)
(* registered.                                                             *)
(***************************************************************************)
C14_AlreadyRegistered ==
    [][\A r \in Requests : (Decides(r) /\ loc[r].userExists) =>
          /\ Branch(r) = "AlreadyRegistered"
          /\ resp'[r].status = 200
          /\ resp'[r].registered_signup
          /\ resp'[r].position = getPositionByIdentifier(redis, loc[r].identifier)
          /\ resp'[r].on_waitlist = (resp'[r].position > 0)
          /\ redis' = redis
          /\ ins' = ins
          /\ NoCommit]_vars

\* A signed-up identity that is on the waitlist asked while the sign-up limit
\* was reached.
C14_Witness ==
    \E r \in Requests :
        /\ pc[r] = "done"
        /\ resp[r].message = "User is already registered"
        /\ resp[r].position > 0
        /\ settings.signed_up_user_limit > 0
        /\ settings.signed_up_users >= settings.signed_up_user_limit

(***************************************************************************)
(* C15.  As stated: for an identity not signed up, when the sign-up limit  *)
(* is positive and reached, the scenario is CapacityExhausted and the      *)
(* identity is on the waitlist afterwards and not registered, also when it *)
(* is queued at an eligible position; with limit 0 the scenario is never   *)
(* CapacityExhausted.                                                      *)
(***************************************************************************)
C15_CapacityExhaustedAdmits ==
    [][\A r \in Requests : (Decides(r) /\ ~loc[r].userExists) =>
          /\ CapacityExhausted(r) =>
                /\ Branch(r) = "CapacityExhausted"
                /\ NoCommit
                /\ ~resp'[r].registered_signup
                /\ isOnWaitlist(redis', loc[r].identifier)
                /\ resp'[r].on_waitlist
          /\ loc[r].settings.signed_up_user_limit = 0 =>
                Branch(r) # "CapacityExhausted"]_vars

(***************************************************************************)
(* C15, amended.  For an identity not signed up, when the sign-up limit is *)
(* positive and reached, the scenario is CapacityExhausted: nobody is      *)
(* registered and insertUser is called once with the waitlist_limit        *)
(* fetched.  The identity is on the waitlist afterwards, at the position   *)
(* answered, unless it was not queued and the queue had reached that       *)
(* limit: then the call fails with 'Waitlist is full', the answer is       *)
(* status 500 with on_waitlist false, and the waitlist is unchanged.  With *)
(* limit 0 the scenario is never CapacityExhausted.                        *)
(***************************************************************************)
C15_CapacityExhaustedDefers ==
    [][\A r \in Requests : (Decides(r) /\ ~loc[r].userExists) =>
          /\ CapacityExhausted(r) =>
                LET full == /\ ~isOnWaitlist(redis, loc[r].identifier)
                            /\ Len(redis.waitlist) >= loc[r].settings.waitlist_limit
                IN
                /\ Branch(r) = "CapacityExhausted"
                /\ NoCommit
                /\ ~resp'[r].registered_signup
                /\ ins[r].outcome = "none" /\ ins'[r].outcome # "none"
                /\ ins'[r].limit = loc[r].settings.waitlist_limit
                /\ (ins'[r].outcome = "threw") = full
                /\ full =>
                      /\ redis' = redis
                      /\ resp'[r].status = 500
                      /\ ~resp'[r].on_waitlist
                      /\ resp'[r].position = 0
                /\ ~full =>
                      /\ isOnWaitlist(redis', loc[r].identifier)
                      /\ resp'[r].status = 200
                      /\ resp'[r].on_waitlist
                      /\ resp'[r].position
                            = getPositionByIdentifier(redis', loc[r].identifier)
                      /\ resp'[r].already_existed = isOnWaitlist(redis, loc[r].identifier)
          /\ loc[r].settings.signed_up_user_limit = 0 =>
                Branch(r) # "CapacityExhausted"]_vars

\* An identity queued at a position within the cutoff was confirmed on the
\* waitlist, not registered.
C15_Witness ==
    \E r \in Requests :
        /\ pc[r] = "done"
        /\ resp[r].message = "User limit reached, added/found on waitlist"
        /\ resp[r].already_existed
        /\ resp[r].position >= 1
        /\ resp[r].position <= settings.signup_cutoff
        /\ CallIdentity(r) \notin registered

(***************************************************************************)
(* C16.  Waitlist-only mode: for an identity not signed up, with the       *)
(* sign-up limit not reached and allowed_registrations = 'waitlist', the   *)
(* scenario is WaitlistOnlyIneligible whenever the identity fails the      *)
(* cutoff test: when it was never queued (position 0) whatever the cutoff, *)
(* and when it is queued beyond the cutoff or the cutoff is negative.  It  *)
(* is not registered.                                                      *)
(***************************************************************************)
C16_WaitlistOnlyIneligible ==
    [][\A r \in Requests :
          (/\ Decides(r)
           /\ ~loc[r].userExists
           /\ ~CapacityExhausted(r)
           /\ loc[r].settings.allowed_registrations = "waitlist"
           /\ \/ loc[r].waitlistPosition = 0
              \/ loc[r].waitlistPosition > loc[r].settings.signup_cutoff
              \/ loc[r].settings.signup_cutoff < 0) =>
              /\ ~CutoffEligibleFor(r)
              /\ Branch(r) = "WaitlistOnlyIneligible"
              /\ ~resp'[r].registered_signup
              /\ NoCommit]_vars

\* An identity never queued was put on the waitlist although the cutoff
\* would admit the position it got.
C16_Witness ==
    \E r \in Requests :
        /\ pc[r] = "done"
        /\ resp[r].message = "Added to waitlist (waitlist only mode)"
        /\ ~resp[r].already_existed
        /\ resp[r].position >= 1
        /\ resp[r].position <= settings.signup_cutoff

(***************************************************************************)
(* C17.  Blocked by cutoff: an identity not signed up that is on the       *)
(* waitlist, fails the cutoff test and is not stopped by an earlier check  *)
(* is answered from BlockedByCutoff and not registered; the answer gives   *)
(* the negative-cutoff reason exactly when signup_cutoff < 0 and the       *)
(* position-beyond-cutoff reason exactly when position > signup_cutoff     *)
(* >= 0.                                                                   *)
(***************************************************************************)
C17_BlockedByCutoff ==
    [][\A r \in Requests :
          LET negative == resp'[r].message
                            = "Signup currently closed for waitlist users (negative cutoff)"
              beyond == resp'[r].message
                            = "On waitlist, but not yet eligible for signup based on cutoff"
              cutoff == loc[r].settings.signup_cutoff
          IN
          /\ (/\ Decides(r)
              /\ ~loc[r].userExists
              /\ ~CapacityExhausted(r)
              /\ loc[r].settings.allowed_registrations # "waitlist"
              /\ loc[r].waitlistPosition > 0
              /\ ~CutoffEligibleFor(r)) =>
                 /\ Branch(r) = "BlockedByCutoff"
                 /\ ~resp'[r].registered_signup
                 /\ NoCommit
                 /\ negative = (cutoff < 0)
                 /\ beyond = (loc[r].waitlistPosition > cutoff /\ cutoff >= 0)
          /\ (Decides(r) /\ Branch(r) = "BlockedByCutoff") =>
                 /\ loc[r].waitlistPosition > 0
                 /\ ~CutoffEligibleFor(r)
                 /\ negative = (cutoff < 0)
                 /\ beyond = (loc[r].waitlistPosition > cutoff /\ cutoff >= 0)]_vars

\* A queued identity was told that sign-up is closed for waitlist users.
C17_Witness ==
    \E r \in Requests :
        /\ pc[r] = "done"
        /\ resp[r].message = "Signup currently closed for waitlist users (negative cutoff)"
        /\ resp[r].on_waitlist
        /\ settings.signup_cutoff < 0

(***************************************************************************)
(* C18.  One cutoff test: for every position >= 1 and every signup_cutoff, *)
(* negative, zero or positive, register-user's isWaitlistEligible, the     *)
(* negation of checkWaitlistRegistrationBlocks and can_sign_up of          *)
(* waitlist-user-can-sign-up all equal signup_cutoff >= 0 and position <=  *)
(* signup_cutoff.                                                          *)
(***************************************************************************)
C18_CutoffTestAgrees ==
    /\ \A r \in Requests : (Fetched(r) /\ loc[r].waitlistPosition >= 1) =>
          LET p == loc[r].waitlistPosition
              s == loc[r].settings
              test == s.signup_cutoff >= 0 /\ p <= s.signup_cutoff
          IN
          /\ isWaitlistEligible(p, s) = test
          /\ (~checkWaitlistRegistrationBlocks(p, s, isUserOnWaitlist(p)).blocked) = test
          /\ canSignUp(p, s) = test
    /\ \A r \in Requests :
          (/\ req[r].endpoint = "waitlist-user-can-sign-up"
           /\ pc[r] = "done"
           /\ resp[r].on_waitlist
           /\ ~resp[r].already_registered) =>
              LET p == resp[r].position
                  test == settings.signup_cutoff >= 0 /\ p <= settings.signup_cutoff
              IN
              /\ p >= 1
              /\ resp[r].can_sign_up = test
              /\ isWaitlistEligible(p, settings) = test
              /\ (~checkWaitlistRegistrationBlocks(p, settings, isUserOnWaitlist(p)).blocked)
                    = test
    /\ \A p \in 1..(MaxCutoff + 1), s \in EvalPolicies :
          LET test == s.signup_cutoff >= 0 /\ p <= s.signup_cutoff IN
          /\ isWaitlistEligible(p, s) = test
          /\ (~checkWaitlistRegistrationBlocks(p, s, isUserOnWaitlist(p)).blocked) = test
          /\ canSignUp(p, s) = test

\* waitlist-user-can-sign-up answered a queued identity under a cutoff of
\* zero.
C18_Witness ==
    \E r \in Requests :
        /\ req[r].endpoint = "waitlist-user-can-sign-up"
        /\ pc[r] = "done"
        /\ resp[r].on_waitlist
        /\ ~resp[r].already_registered
        /\ ~resp[r].can_sign_up
        /\ settings.signup_cutoff = 0

(***************************************************************************)
(* C19.  Never queued: an identity at position 0 that is not signed up,    *)
(* with the sign-up limit not reached and allowed_registrations = 'all',   *)
(* goes to registration whatever signup_cutoff is, negative and zero       *)
(* included: the cutoff test does not apply to it.                         *)
(***************************************************************************)
C19_NeverQueuedEligible ==
    [][\A r \in Requests :
          (/\ Decides(r)
           /\ ~loc[r].userExists
           /\ ~CapacityExhausted(r)
           /\ loc[r].settings.allowed_registrations = "all"
           /\ loc[r].waitlistPosition = 0) =>
              /\ Branch(r) = "EligibleToRegister"
              /\ ~resp'[r].on_waitlist
              /\ resp'[r].position = 0
              /\ redis' = redis]_vars

\* An identity never queued registered while the cutoff was negative.
C19_Witness ==
    \E r \in Requests :
        /\ pc[r] = "done"
        /\ resp[r].message = "User successfully registered"
        /\ resp[r].registered_signup
        /\ settings.signup_cutoff < 0
        /\ settings.allowed_registrations = "all"

AdmittedBefore(r) == Indexed(ins[r].before) \ {CallIdentity(r)}

(***************************************************************************)
(* C12.  As stated: of two insertUser calls on different identities, the   *)
(* one that runs after the other identity's admission was committed gets   *)
(* the strictly greater position; calls on different identities never get  *)
(* the same position.                                                      *)
(***************************************************************************)
C12_LaterCallGreaterPosition ==
    /\ \A r \in Requests : Admitted(r) =>
          \A k \in AdmittedBefore(r) :
              ins[r].position > getPositionByIdentifier(ins[r].before, k)
    /\ \A r1, r2 \in Requests :
          (Admitted(r1) /\ Admitted(r2) /\ CallIdentity(r1) # CallIdentity(r2)) =>
              ins[r1].position # ins[r2].position

(***************************************************************************)
(* C12, amended.  Positions follow the order of admission: a call that     *)
(* admits a new identity gets a position strictly greater than that of     *)
(* every identity admitted before its script ran; a call for an identity   *)
(* already admitted returns the position the identity was given then,      *)
(* which is smaller than that of identities admitted since.  Calls on      *)
(* different identities never get the same position, however they          *)
(* interleave.                                                             *)
(***************************************************************************)
C12_PositionsFollowAdmission ==
    /\ \A r \in Requests : (CalledNew(r) /\ Admitted(r)) =>
          \A k \in AdmittedBefore(r) :
              ins[r].position > getPositionByIdentifier(ins[r].before, k)
    /\ \A r \in Requests : CalledExisting(r) =>
          /\ ins[r].position = getPositionByIdentifier(ins[r].before, CallIdentity(r))
          /\ \A k \in AdmittedBefore(r) :
                ins[r].position # getPositionByIdentifier(ins[r].before, k)
    /\ \A r1, r2 \in Requests :
          (Admitted(r1) /\ Admitted(r2) /\ CallIdentity(r1) # CallIdentity(r2)) =>
              /\ ins[r1].position # ins[r2].position
              /\ IndexedId(ins[r2].before, CallIdentity(r1)) # Nil /\ CalledNew(r2) =>
                    ins[r2].position > ins[r1].position

\* Two requests raced with different identities: the one that arrived
\* second was admitted first, and the other got the position behind it.
C12_Witness ==
    \E r1, r2 \in Requests :
        /\ r1 < r2
        /\ Created(r1) /\ Created(r2)
        /\ CallIdentity(r1) # CallIdentity(r2)
        /\ IndexedId(ins[r1].before, CallIdentity(r2)) # Nil
        /\ ins[r1].position > ins[r2].position

(***************************************************************************)
(* C21.  Failed commit: when the scenario is EligibleToRegister and        *)
(* increment_user_count fails, register-user answers the registry error    *)
(* (status 500, registered_signup false, the position it had fetched) and  *)
(* writes nothing: the queue, the identity index and the stored records    *)
(* are unchanged, insertUser is not called as a fallback, nobody is        *)
(* registered.                                                             *)
(***************************************************************************)
C21_FailedCommitNoFallback ==
    [][\A r \in Requests :
          (Decides(r) /\ EvaluateFor(r) = "EligibleToRegister") =>
              /\ loc[r].identifier \notin registered' => ~resp'[r].registered_signup
              /\ ~resp'[r].registered_signup =>
                    /\ resp'[r].status = 500
                    /\ resp'[r].message = "Registration failed due to a database issue."
                    /\ resp'[r].position = loc[r].waitlistPosition
                    /\ resp'[r].on_waitlist = (loc[r].waitlistPosition > 0)
                    /\ redis' = redis
                    /\ ins' = ins
                    /\ ins[r].outcome = "none"
                    /\ isOnWaitlist(redis', loc[r].identifier)
                          = isOnWaitlist(redis, loc[r].identifier)
                    /\ NoCommit]_vars

\* The registration of an identity that was never queued failed while the
\* waitlist had room: the identity is still not on the waitlist.
C21_Witness ==
    \E r \in Requests :
        /\ pc[r] = "done"
        /\ resp[r].message = "Registration failed due to a database issue."
        /\ resp[r].position = 0
        /\ ins[r].outcome = "none"
        /\ Len(redis.waitlist) < settings.waitlist_limit
        /\ ~isOnWaitlist(redis, validateAndSanitizeUsername(req[r].username).sanitizedIdentifier)

\* The scenarios that neither register nor find the identity registered.
NotRegisteringOutcomes == {"CapacityExhausted", "WaitlistOnlyIneligible", "BlockedByCutoff"}

(***************************************************************************)
(* C22.  As stated: in each of CapacityExhausted, WaitlistOnlyIneligible   *)
(* and BlockedByCutoff register-user calls insertUser for the identity and *)
(* answers not registered, with the position that call returned and        *)
(* whether the identity was newly admitted.                                *)
(***************************************************************************)
C22_AlwaysEnqueues ==
    [][\A r \in Requests :
          (Decides(r) /\ EvaluateFor(r) \in NotRegisteringOutcomes) =>
              /\ ins[r].outcome = "none"
              /\ ins'[r].outcome # "none"
              /\ ins'[r].username = loc[r].identifier
              /\ ~resp'[r].registered_signup
              /\ resp'[r].position = ins'[r].position
              /\ resp'[r].already_existed = ins'[r].already_existed]_vars

(***************************************************************************)
(* C22, amended.  In each of the three scenarios register-user answers not *)
(* registered and registers nobody.  It calls insertUser, once and with    *)
(* the waitlist_limit it fetched, in CapacityExhausted and when the        *)
(* position it fetched is 0; the answer then carries the position the call *)
(* returned and whether the identity was already there, unless the call    *)
(* fails with 'Waitlist is full' (status 500, position 0, nothing          *)
(* written).  When the position it fetched is positive, in                 *)
(* WaitlistOnlyIneligible and always in BlockedByCutoff, insertUser is not *)
(* called: the answer carries the fetched position and no                  *)
(* already-existed flag, and nothing is written.                           *)
(***************************************************************************)
C22_EnqueuesUnlessQueued ==
    [][\A r \in Requests :
          (Decides(r) /\ EvaluateFor(r) \in NotRegisteringOutcomes) =>
              LET calls == \/ EvaluateFor(r) = "CapacityExhausted"
                           \/ loc[r].waitlistPosition = 0
              IN
              /\ ~resp'[r].registered_signup
              /\ NoCommit
              /\ ins[r].outcome = "none"
              /\ (ins'[r].outcome # "none") = calls
              /\ EvaluateFor(r) = "BlockedByCutoff" => ~calls
              /\ calls =>
                    /\ ins'[r].username = loc[r].identifier
                    /\ ins'[r].limit = loc[r].settings.waitlist_limit
                    /\ ins'[r].before = redis /\ ins'[r].after = redis'
                    /\ IF ins'[r].outcome = "threw"
                       THEN /\ resp'[r].status = 500
                            /\ resp'[r].position = 0
                            /\ ~resp'[r].on_waitlist
                            /\ redis' = redis
                       ELSE /\ resp'[r].status = 200
                            /\ resp'[r].on_waitlist
                            /\ resp'[r].position = ins'[r].position
                            /\ resp'[r].position
                                  = getPositionByIdentifier(redis', loc[r].identifier)
                            /\ resp'[r].already_existed = ins'[r].already_existed
                            /\ resp'[r].already_existed
                                  = isOnWaitlist(redis, loc[r].identifier)
              /\ ~calls =>
                    /\ redis' = redis
                    /\ ins' = ins
                    /\ resp'[r].status = 200
                    /\ resp'[r].on_waitlist
                    /\ resp'[r].position = loc[r].waitlistPosition
                    /\ ~resp'[r].already_existed]_vars

\* In waitlist-only mode an identity queued beyond the cutoff was answered
\* from the position fetched, without a call of insertUser.
C22_Witness ==
    \E r \in Requests :
        /\ pc[r] = "done"
        /\ resp[r].message = "On waitlist, but not yet eligible for signup"
        /\ resp[r].position > 0
        /\ ins[r].outcome = "none"

\* The identity of the request r carries.
RequestIdentity(r) == validateAndSanitizeUsername(req[r].username).sanitizedIdentifier

\* Requests r1 and r2 are register-user calls for one identity, both
\* answered, r1 before r2.
RegisteredTwice(r1, r2) ==
    /\ r1 < r2
    /\ req[r1].endpoint = "register-user" /\ req[r2].endpoint = "register-user"
    /\ pc[r1] = "done" /\ pc[r2] = "done"
    /\ validateAndSanitizeUsername(req[r1].username).isValid
    /\ RequestIdentity(r1) = RequestIdentity(r2)

(***************************************************************************)
(* C23.  register-user called twice in sequence: when the first call was   *)
(* EligibleToRegister and its registration succeeded, the second call, if  *)
(* it does not answer with an error, answers AlreadyRegistered; it does    *)
(* not call insertUser and does not register again.                        *)
(***************************************************************************)
C23_SecondCallAlreadyRegistered ==
    \A r1, r2 \in Requests :
        (/\ RegisteredTwice(r1, r2)
         /\ BranchOf(resp[r1].message) = "EligibleToRegister"
         /\ resp[r1].registered_signup
         /\ resp[r2].status = 200) =>
            /\ BranchOf(resp[r2].message) = "AlreadyRegistered"
            /\ ins[r2].outcome = "none"

\* This step leaves the waitlist keys and the registry as they are and calls
\* insertUser for nobody.
NoSideEffect == redis' = redis /\ ins' = ins /\ NoCommit

(***************************************************************************)
(* C25.  A registry failure is reported and followed by no side effect:    *)
(* when the check_user_exists RPC of a register-user request failed, when  *)
(* get_current_settings of a register-user or add-to-waitlist request      *)
(* failed, or when increment_user_count failed, the request answers with   *)
(* an error (status 500) and neither calls insertUser nor registers; the   *)
(* failed check is not taken for the answer 'not registered'.              *)
(***************************************************************************)
C25_RegistryFailureReported ==
    [][\A r \in Requests :
          \* the already-registered check failed
          /\ (Decides(r) /\ loc[r].existsError) =>
                /\ redis' = redis
                /\ NoCommit
                /\ resp'[r].status = 500
          \* the policy fetch of register-user failed
          /\ (pc[r] = "reg_fetch" /\ "settings" \in loc[r].pending /\ pc'[r] = "done") =>
                /\ resp'[r].status = 500
                /\ NoSideEffect
          \* the policy fetch of add-to-waitlist failed
          /\ (/\ pc[r] = "idle" /\ pc'[r] = "done"
              /\ req'[r].endpoint = "add-to-waitlist"
              /\ validateAndSanitizeUsername(req'[r].username).isValid) =>
                /\ resp'[r].status = 500
                /\ NoSideEffect
          \* the commit failed
          /\ (/\ Decides(r)
              /\ EvaluateFor(r) = "EligibleToRegister"
              /\ ~resp'[r].registered_signup) =>
                /\ resp'[r].status = 500
                /\ NoSideEffect]_vars

(***************************************************************************)
(* C24.  register-user repeated for an identity that is on the waitlist,   *)
(* the onboarding settings being the same for both calls: two calls that   *)
(* do not answer with an error give the same registered flag, the same     *)
(* on-waitlist flag and the same position, and neither adds an entry: the  *)
(* queue and the identity index are as they were before the first call.    *)
(***************************************************************************)
C24_RepeatSameOutcome ==
    \A r1, r2 \in Requests :
        (/\ RegisteredTwice(r1, r2)
         \* the identity was on the waitlist before the first call
         /\ isOnWaitlist(redis, RequestIdentity(r1))
         /\ ~Created(r1) /\ ~Created(r2)
         \* the settings did not change: no sign-up was counted in between
         /\ policyChanges = 0
         /\ BranchOf(resp[r1].message) # "EligibleToRegister"
         /\ resp[r1].status = 200 /\ resp[r2].status = 200) =>
            /\ resp[r2].registered_signup = resp[r1].registered_signup
            /\ resp[r2].on_waitlist = resp[r1].on_waitlist
            /\ resp[r2].position = resp[r1].position
            /\ \A r \in {r1, r2} : Called(r) =>
                  /\ ins[r].after.waitlist = ins[r].before.waitlist
                  /\ ins[r].after.emails = ins[r].before.emails
                  /\ ins[r].after.phones = ins[r].before.phones

\* What register-user does after its fetch, from the values fetched alone.
ActionFor(r) ==
    CASE EvaluateFor(r) = "EligibleToRegister" -> "commit"
      [] EvaluateFor(r) = "CapacityExhausted" -> "admit"
      [] EvaluateFor(r) = "WaitlistOnlyIneligible" /\ loc[r].waitlistPosition = 0 -> "admit"
      [] OTHER -> "none"

(***************************************************************************)
(* C26.  The fetched values decide: the scenario a register-user request   *)
(* answers from, and whether it registers, calls insertUser or does        *)
(* neither, is a function of the flag, the settings and the position it    *)
(* read in its fetch, whatever the registry and the waitlist hold by then. *)
(* A value once read is kept until the answer: the steps of other requests *)
(* and of the registry's owner do not change it, and the request reads it  *)
(* no second time; insertUser gets the waitlist_limit that was fetched.    *)
(***************************************************************************)
C26_FetchedValuesDecide ==
    [][\A r \in Requests :
          /\ Decides(r) =>
                /\ Branch(r) = EvaluateFor(r)
                /\ (Branch(r) = "EligibleToRegister") = (ActionFor(r) = "commit")
                /\ (ins'[r] # ins[r]) = (ActionFor(r) = "admit")
                /\ ins'[r] # ins[r] => ins'[r].limit = loc[r].settings.waitlist_limit
                /\ ~NoCommit => ActionFor(r) = "commit"
                /\ redis' # redis => ActionFor(r) = "admit"
          /\ (pc[r] = "reg_fetch" /\ pc'[r] = "reg_fetch") =>
                /\ loc'[r].pending \subseteq loc[r].pending
                /\ "exists" \notin loc[r].pending =>
                      loc'[r].userExists = loc[r].userExists
                /\ "settings" \notin loc[r].pending =>
                      loc'[r].settings = loc[r].settings
                /\ "position" \notin loc[r].pending =>
                      loc'[r].waitlistPosition = loc[r].waitlistPosition]_vars

\* Under a sign-up limit of 1 that nobody changed, two requests have both
\* registered: the second decided on the count it had fetched before the
\* first registered.
C26_Witness ==
    /\ policyChanges = 0
    /\ settings.signed_up_user_limit = 1
    /\ settings.signed_up_users = 2
    /\ \A r \in Requests :
          /\ pc[r] = "done"
          /\ resp[r].registered_signup
          /\ BranchOf(resp[r].message) = "EligibleToRegister"

\* The identities the email index and the phone index of a store map to an
\* entryId.
IndexedTo(db, id) ==
    {k \in DOMAIN db.emails : db.emails[k] = id} \cup {k \in DOMAIN db.phones : db.phones[k] = id}

\* How many times an entryId occurs in the queue.
Occurrences(db, id) == Cardinality({i \in 1..Len(db.waitlist) : db.waitlist[i] = id})

(***************************************************************************)
(* C27.  Index and queue agree: in every reachable state every entryId an  *)
(* identity is mapped to, in the email index or the phone index, occurs    *)
(* exactly once in the queue; every element of the queue is the entryId of *)
(* exactly one identity, held in exactly one of the two indexes; and there *)
(* are as many indexed identities as queue elements.                       *)
(***************************************************************************)
C27_IndexQueueConsistent ==
    /\ \A k \in DOMAIN redis.emails : Occurrences(redis, redis.emails[k]) = 1
    /\ \A k \in DOMAIN redis.phones : Occurrences(redis, redis.phones[k]) = 1
    /\ \A i \in 1..Len(redis.waitlist) :
          LET id == redis.waitlist[i] IN
          /\ Cardinality({k \in DOMAIN redis.emails : redis.emails[k] = id})
               + Cardinality({k \in DOMAIN redis.phones : redis.phones[k] = id}) = 1
          /\ Cardinality(IndexedTo(redis, id)) = 1
    /\ DOMAIN redis.emails \cap DOMAIN redis.phones = {}
    /\ Cardinality(DOMAIN redis.emails) + Cardinality(DOMAIN redis.phones)
          = Len(redis.waitlist)

\* The queue holds two entries, one indexed by email and one by phone, the
\* phone number's in front.
C27_Witness ==
    /\ Len(redis.waitlist) = 2
    /\ Cardinality(DOMAIN redis.emails) = 1
    /\ Cardinality(DOMAIN redis.phones) = 1
    /\ \E k \in DOMAIN redis.phones : redis.phones[k] = redis.waitlist[1]
    /\ \E k \in DOMAIN redis.emails : redis.emails[k] = redis.waitlist[2]

(***************************************************************************)
(* C28.  Existence and position agree: in every reachable state            *)
(* isOnWaitlist of an identity is true exactly when its                    *)
(* getPositionByIdentifier is positive.  waitlist-user-can-sign-up, which  *)
(* reads existence first and the position with a later call, therefore     *)
(* never answers on_waitlist true with position 0, whatever admissions run *)
(* in between.                                                             *)
(***************************************************************************)
C28_ExistenceIsPosition ==
    /\ \A k \in Identifiers :
          isOnWaitlist(redis, k) = (getPositionByIdentifier(redis, k) > 0)
    /\ \A r \in Requests :
          /\ (pc[r] \in {"can_fetch", "can_position"} /\ loc[r].userIsOnWaitlist) =>
                getPositionByIdentifier(redis, loc[r].identifier) > 0
          /\ (req[r].endpoint = "waitlist-user-can-sign-up" /\ pc[r] = "done") =>
                /\ resp[r].on_waitlist = (resp[r].position > 0)
                /\ resp[r].position \in
                      {0, getPositionByIdentifier(redis, RequestIdentity(r))}

\* A request that arrived before the add-to-waitlist request for its
\* identity saw the phone number on the waitlist and answered its position.
C28_Witness ==
    \E r1, r2 \in Requests :
        /\ r1 < r2
        /\ req[r1].endpoint = "waitlist-user-can-sign-up"
        /\ pc[r1] = "done"
        /\ resp[r1].on_waitlist
        /\ resp[r1].position > 0
        /\ Created(r2)
        /\ CallIdentity(r2) = RequestIdentity(r1)
        /\ SanitizeForInsert(ins[r2].username).phone # Nil

(***************************************************************************)
(* C29.  can_sign_up: a waitlist-user-can-sign-up request that answers     *)
(* without an error reports can_sign_up true exactly when the identity is  *)
(* not signed up, is on the waitlist, signup_cutoff >= 0 and its position  *)
(* is at most signup_cutoff; signed_up_user_limit, signed_up_users and     *)
(* allowed_registrations have no part in the answer.                       *)
(***************************************************************************)
C29_CanSignUpIffEligible ==
    \A r \in Requests :
        (/\ req[r].endpoint = "waitlist-user-can-sign-up"
         /\ pc[r] = "done"
         /\ resp[r].status = 200) =>
            resp[r].can_sign_up =
               (/\ RequestIdentity(r) \notin registered
                /\ isOnWaitlist(redis, RequestIdentity(r))
                /\ settings.signup_cutoff >= 0
                /\ getPositionByIdentifier(redis, RequestIdentity(r))
                      <= settings.signup_cutoff)

\* What insertUser does for request r's identity on the waitlist keys its
\* call found, with the limit it passed: the registry has no part in it.
InsertFor(r) ==
    insertUser(ins[r].before, uuidv4(r),
               [username |-> RequestIdentity(r), metadata |-> Nil], ins[r].limit)

(***************************************************************************)
(* C30.  add-to-waitlist does not look at the registration status: the     *)
(* answer and the waitlist keys it leaves are a function of the waitlist   *)
(* keys it found, the identity and the waitlist_limit it fetched, the same *)
(* whether the registry has the identity signed up or not.  An identity    *)
(* that is signed up and was never queued is admitted when the queue has   *)
(* room, and takes a position.                                             *)
(***************************************************************************)
C30_AddIgnoresRegistration ==
    \A r \in Requests :
        (req[r].endpoint = "add-to-waitlist" /\ pc[r] = "done") =>
            /\ resp[r].status = 200 => Called(r)
            /\ ~loc[r].userExists /\ ~loc[r].existsError
            /\ Called(r) =>
                  /\ ins[r].after = InsertFor(r).db
                  /\ ins[r].outcome = InsertFor(r).outcome
                  /\ resp[r].success = (InsertFor(r).outcome = "returned")
                  /\ resp[r].position = InsertFor(r).result.position
                  /\ resp[r].already_existed = InsertFor(r).result.already_existed
                  /\ (CalledNew(r) /\ Len(ins[r].before.waitlist) < ins[r].limit) =>
                        /\ Created(r)
                        /\ resp[r].success
                        /\ resp[r].position = Len(ins[r].before.waitlist) + 1
                        /\ Len(ins[r].after.waitlist) = Len(ins[r].before.waitlist) + 1

\* An identity the registry has signed up, never queued, was admitted to
\* the last free place of the waitlist.
C30_Witness ==
    \E r \in Requests :
        /\ req[r].endpoint = "add-to-waitlist"
        /\ pc[r] = "done"
        /\ RequestIdentity(r) \in registered
        /\ Created(r)
        /\ resp[r].success
        /\ resp[r].position = ins[r].limit

====
